---- MODULE Spec2Model ----
(***************************************************************************)
(* Model of viseron's publish/subscribe data bus                           *)
(* (viseron/components/data_stream/__init__.py): the two class-level       *)
(* registries, the bounded mailbox, the publishers, and the single         *)
(* dispatch worker (consume_data) with its delivery modes.                 *)
(*                                                                         *)
(* Strings that the code inspects character by character (topics and       *)
(* patterns) are sequences of one-character strings.                       *)
(***************************************************************************)
EXTENDS Integers, Sequences, FiniteSets, TLC

(* ------------------------------ bounds -------------------------------- *)
\* Queue(maxsize=1000) of _data_queue, scaled down.
DataQueueMaxSize == 2
\* maxsize of a subscriber's own relay queue, scaled down.
RelayQueueMaxSize == 2
\* number of publish_data calls in one run of Spec and of SpecPayload
MaxMsgs == 2
\* number of publish_data calls in one run of SpecRegistry
MaxRegistryMsgs == 3
\* number of publish_data calls in one run of SpecMailbox
MaxMailboxMsgs == 4
\* number of subscribe_data calls in one run
MaxSubs == 2
\* number of subscribe_data calls in one run of SpecFanout
MaxFanoutSubs == 3
\* number of publish_data calls in one run of SpecFanout
MaxFanoutMsgs == 1
\* number of times thread.start() may fail in one run
MaxStartFail == 1
\* number of times ioloop.add_callback may raise in one run
MaxRaise == 1
\* cap of the counter of throttle sleeps
MaxSleep == 1

(* --------------------------- input domains ---------------------------- *)
Producers == {"p1", "p2"}

Topics == { <<"a", "/", "b">>, <<"a", "/", "b", "/", "c">> }
Patterns == { <<"a", "/", "*">>, <<"*", "/", "c">> }

\* payloads: None (absent), a falsy value (0, b"", ...), a truthy value
None == "None"
Payloads == {None, "0", "x"}
Falsy == {None, "0"}

\* (callback, ioloop) pairs a subscriber can register
Direct == [callback |-> "callable", ioloop |-> None]
SchedulerCallback == [callback |-> "callable", ioloop |-> "ioloop"]
Relay == [callback |-> "Queue", ioloop |-> None]
Targets == {Direct, SchedulerCallback, Relay}
\* a tornado queue with its ioloop, and the kinds run_callbacks rejects
SchedulerRelay == [callback |-> "tornado_queue", ioloop |-> "ioloop"]
TornadoNoLoop == [callback |-> "tornado_queue", ioloop |-> None]
NotCallable == [callback |-> "str", ioloop |-> None]
NotCallableLoop == [callback |-> "str", ioloop |-> "ioloop"]

\* long-lived threads counted by threading.active_count(): main, data_stream
BaseThreads == 2
\* the value printed by `ulimit -u`
UlimitU == 3

(* ----------------------- process watchdog: domains --------------------- *)
\* the RestartableProcess objects of a run, and who can be inside restart()
Units == {"u1", "u2"}
Callers == {"watchdog", "app"}

\* self._process = None, self._start_time = None, timeout=None
NoProcess == 0
NoTime == 0
NoTimeout == -1

\* add_job(self.watchdog, "interval", seconds=15)
TickInterval == 15
\* grace_period=20
DefaultGracePeriod == 20
GracePeriods == {TickInterval, DefaultGracePeriod}
\* the timeouts a caller passes to restart()
Timeouts == {NoTimeout, 0, 5}

\* the timestamp at which the watchdog is constructed
Epoch == 100
\* how long a run lasts, in seconds
MaxTime == 30
\* number of mp.Process objects created in one run
MaxPids == 4
\* number of restart() calls of the application in one run of SpecRestart
MaxRestarts == 2
\* number of DataStream objects constructed in one run
MaxConsumers == 2
\* number of restart() calls that raise in one run, and how long a run of
\* SpecLaunch lasts, in seconds
MaxLaunchFail == 2
MaxLaunchTime == 45
\* how long a run of SpecHandle lasts, in seconds
MaxHandleTime == 15
\* how long a run of SpecStorm lasts, in seconds
MaxStormTime == 75
\* how many frame readers a run of SpecReaders makes
MaxRaceReaders == 3
\* how many empty reads in a row a frame reader of SpecReaders counts
MaxEmptyReads == 3
\* how long a run of SpecReaders lasts, in seconds
MaxRaceTime == 15

(* ---------------------------- camera: domains -------------------------- *)
\* self._frame_reader = None
NoReader == 0
\* number of frame reader units created in one run
MaxReaders == 2
\* DEFAULT_FRAME_TIMEOUT and config[CONFIG_FRAME_TIMEOUT], scaled down
DefaultFrameTimeout == 5
FrameTimeout == 5
\* how many routes a handler of SpecRoute has
MaxRoutes == 3
\* how many frames the stream of SpecCamera delivers in one run
MaxFrames == 1
\* if empty_frames >= 10, scaled down
EmptyFramesLimit == 2
\* self._frame_reader.join(timeout=5)
JoinTimeout == 5
\* the resolution of the clock: the durations of the code are 5, 15 and 20
\* seconds
TimeStep == JoinTimeout
\* self.frame_bytes_topic, the topic of the camera's frames
frame_bytes_topic == <<"f", "/", "b">>
\* a caller that is not in stop_camera
NoCall == [pc |-> "idle", unit |-> NoReader, since |-> NoTime]

(* ------------------------------ state ---------------------------------- *)
VARIABLES
    _subscribers,           \* exact registry: seq of [data_topic, callbacks]
    _wildcard_subscribers,  \* wildcard registry: seq of [data_topic, callbacks]
    _data_queue,            \* the mailbox: seq of data items
    _max_threads,           \* ceiling used by the direct-delivery throttle
    next_uuid,              \* uuid.uuid4(): the next fresh id
    raised,                 \* exception raised by the last registry call
    ppc,                    \* per producer: position in publish_data
    pitem,                  \* per producer: the item of the call in progress
    pc,                     \* dispatch worker: position in consume_data
    data_item,              \* dispatch worker: item being dispatched
    callbacks,              \* dispatch worker: rest of callbacks.copy()
    wcopy,                  \* dispatch worker: rest of _wildcard_subscribers.copy()
    thread,                 \* dispatch worker: Thread object not yet started
    caller,                 \* dispatch worker: who called run_callbacks
    parked,                 \* the other data_stream threads, not running now
    threads,                \* started delivery threads that did not yet run
    ioloop_callbacks,       \* the scheduler's callback FIFO
    queues,                 \* the subscribers' own relay queues, by id
    start_fails,            \* number of failed thread.start() so far
    slept,                  \* number of throttle sleeps so far (capped)
    retry,                  \* history: the failed thread.start() and what
                            \* the throttle loop did next
    published,              \* history: items in publish order
    dropped,                \* history: mids removed from the mailbox by overflow
    handed,                 \* history: hand-offs made by the dispatch worker
    calls,                  \* history: invocations of subscriber targets
    subscribed,             \* history: per id, its key and when it was added
    unsubscribed,           \* history: per removed id, what was true at removal
    copied,                 \* history: the copy the current pass iterates
    wcopied,                \* history: the registry copy of the wildcard pass
    npass,                  \* history: number of run_callbacks passes so far
    begun,                  \* history: per mid, who matched when dispatch began
    logged,                 \* history: LOGGER.error records of run_callbacks
    errored,                \* history: deliveries whose hand-off raised
    _process,               \* per process unit: its mp.Process handle
    _started,               \* per process unit: the started flag
    _start_time,            \* per process unit: timestamp of the last start()
    _grace_period,          \* per process unit: grace period
    _register,              \* per process unit: register with the watchdog
    _name,                  \* per process unit: name
    _args,                  \* per process unit: args and kwargs of mp.Process
    registered_items,       \* ProcessWatchDog.registered_items
    proc,                   \* the OS: per mp.Process handle, its state
    next_pid,               \* the next fresh mp.Process handle
    now,                    \* datetime.datetime.now().timestamp()
    next_tick,              \* the scheduler: when the watchdog job is due
    wpc,                    \* watchdog job: position in watchdog()
    windex,                 \* watchdog job: index of the list iterator
    registered_process,     \* watchdog job: the loop variable
    frame,                  \* per caller: the restart() call in progress
    restarts,               \* history: restart() calls
    skipped,                \* history: units skipped for their grace period
    failed,                 \* history: restart() calls that raised
    released,               \* history: per unit, the pid counter when
                            \* terminate() or kill() last returned
    ticked,                 \* history: number of watchdog jobs begun
    _frame_reader,          \* camera: the current frame reader unit
    _capture_frames,        \* camera: the capture flag
    _thread_stuck,          \* camera: set by the poll action
    connected,              \* camera: a frame was read
    _poll_timer,            \* camera: timestamp of the last frame
    decode_error,           \* camera: the decode-error Event
    pipe,                   \* camera: the stream's frame pipe
    reader,                 \* the RestartableThread units made by the camera
    thread_items,           \* ThreadWatchDog.registered_items
    tpc,                    \* thread watchdog job: position
    tcopy,                  \* thread watchdog job: units still to examine
    tunit,                  \* thread watchdog job: the loop variable
    cpc,                    \* per caller: position in stop_camera
    trestarts,              \* history: restarts made by the thread watchdog
    request,                \* API handler: the request it was made for
    response                \* API handler: what it answered

vars == << _subscribers, _wildcard_subscribers, _data_queue, _max_threads,
           next_uuid, raised, ppc, pitem, pc, data_item, callbacks, wcopy,
           thread, caller, parked, threads, ioloop_callbacks, queues,
           start_fails, slept, retry,
           published, dropped, handed, calls, subscribed, unsubscribed,
           copied, wcopied, npass, begun, logged, errored,
           _process, _started, _start_time, _grace_period, _register, _name,
           _args, registered_items, proc, next_pid, now, next_tick, wpc,
           windex, registered_process, frame, restarts, skipped, failed,
           released, ticked,
           _frame_reader, _capture_frames, _thread_stuck, connected,
           _poll_timer, decode_error, pipe, reader, thread_items, tpc, tcopy,
           tunit, cpc, trestarts, request, response >>

(* ------------------------------ helpers -------------------------------- *)
NoItem == [data_topic |-> <<>>, data |-> None, mid |-> 0, producer |-> "none"]
NoThread == [id |-> 0, mid |-> 0, args |-> <<>>]
\* no restart() call in progress
NoFrame == [pc |-> "idle", unit |-> "none", timeout |-> NoTimeout,
            since |-> NoTime, old |-> NoProcess]

\* no API request is being handled, and none has been answered
NoRequest == [path |-> <<>>]
NoResponse == [status |-> 0, invoked |-> "none", route |-> "none"]

Min(a, b) == IF a < b THEN a ELSE b

RECURSIVE SeqToSet(_)
SeqToSet(s) == IF s = <<>> THEN {} ELSE {Head(s)} \cup SeqToSet(Tail(s))

\* dict lookup helpers on a registry (a seq of [data_topic, callbacks])
HasKey(reg, k) == \E i \in 1..Len(reg) : reg[i].data_topic = k
KeyIndex(reg, k) == CHOOSE i \in 1..Len(reg) : reg[i].data_topic = k
\* dict.get(k, {})
Get(reg, k) == IF HasKey(reg, k) THEN reg[KeyIndex(reg, k)].callbacks ELSE <<>>
HasId(cbs, id) == \E i \in 1..Len(cbs) : cbs[i].id = id
RemoveId(cbs, id) == SelectSeq(cbs, LAMBDA c : c.id # id)
Keys(reg) == [i \in 1..Len(reg) |-> reg[i].data_topic]
Ids(cbs) == [i \in 1..Len(cbs) |-> cbs[i].id]

\* "*" in data_topic
HasStar(t) == \E i \in 1..Len(t) : t[i] = "*"

\* fnmatch.fnmatch(name, pat): the pattern is translated to a regular
\* expression in which "*" is ".*", "?" is "." and any other character
\* stands for itself, matched against the whole name.
RECURSIVE fnmatch(_, _)
fnmatch(name, pat) ==
    IF pat = <<>> THEN name = <<>>
    ELSE IF Head(pat) = "*"
         THEN fnmatch(name, Tail(pat))
              \/ (name # <<>> /\ fnmatch(Tail(name), pat))
    ELSE IF Head(pat) = "?"
         THEN name # <<>> /\ fnmatch(Tail(name), Tail(pat))
    ELSE name # <<>> /\ Head(name) = Head(pat)
         /\ fnmatch(Tail(name), Tail(pat))

\* helpers.pop_if_full(queue, item): drop-oldest-insert-newest
pop_if_full(queue, maxsize, item) ==
    IF Len(queue) >= maxsize THEN Append(Tail(queue), item)
    ELSE Append(queue, item)

\* threading.active_count()
active_count == BaseThreads + Cardinality(threads)

\* arguments a callable target is invoked with
CallArgs(data) == IF data \notin Falsy THEN <<data>> ELSE <<>>

(* ------------------------------- Init ---------------------------------- *)
\* DataStream._get_max_threads: int(ulimit_output)
_get_max_threads == UlimitU

Init ==
    /\ _subscribers = <<>>
    /\ _wildcard_subscribers = <<>>
    /\ _data_queue = <<>>
    /\ _max_threads = _get_max_threads
    /\ next_uuid = 1
    /\ raised = "none"
    /\ ppc = [p \in Producers |-> "idle"]
    /\ pitem = [p \in Producers |-> NoItem]
    /\ pc = "get"
    /\ data_item = NoItem
    /\ callbacks = <<>>
    /\ wcopy = <<>>
    /\ thread = NoThread
    /\ caller = "none"
    /\ parked = <<>>
    /\ threads = {}
    /\ ioloop_callbacks = <<>>
    /\ queues = [i \in {} |-> <<>>]
    /\ start_fails = 0
    /\ slept = 0
    /\ retry = "none"
    /\ published = <<>>
    /\ dropped = {}
    /\ handed = <<>>
    /\ calls = <<>>
    /\ subscribed = [i \in {} |-> 0]
    /\ unsubscribed = [i \in {} |-> 0]
    /\ copied = <<>>
    /\ wcopied = <<>>
    /\ npass = 0
    /\ begun = [i \in {} |-> {}]
    /\ logged = <<>>
    /\ errored = {}
    /\ _process = [u \in Units |-> NoProcess]
    /\ _started = [u \in Units |-> FALSE]
    /\ _start_time = [u \in Units |-> NoTime]
    /\ _grace_period = [u \in Units |-> DefaultGracePeriod]
    /\ _register = [u \in Units |-> TRUE]
    /\ _name = [u \in Units |-> "none"]
    /\ _args = [u \in Units |-> <<>>]
    /\ registered_items = <<>>
    /\ proc = [i \in {} |-> "initial"]
    /\ next_pid = 1
    /\ now = Epoch
    /\ next_tick = Epoch + TickInterval
    /\ wpc = "idle"
    /\ windex = 1
    /\ registered_process = "none"
    /\ frame = [c \in Callers |-> NoFrame]
    /\ restarts = <<>>
    /\ skipped = {}
    /\ failed = <<>>
    /\ released = [u \in Units |-> NoProcess]
    /\ ticked = 0
    /\ _frame_reader = NoReader
    /\ _capture_frames = FALSE
    /\ _thread_stuck = FALSE
    /\ connected = FALSE
    /\ _poll_timer = Epoch
    /\ decode_error = FALSE
    /\ pipe = "closed"
    /\ reader = <<>>
    /\ thread_items = <<>>
    /\ tpc = "idle"
    /\ tcopy = <<>>
    /\ tunit = NoReader
    /\ cpc = [c \in Callers |-> NoCall]
    /\ trestarts = <<>>
    /\ request = NoRequest
    /\ response = NoResponse

workerVars == << pc, data_item, callbacks, wcopy, thread, caller >>
registryVars == << _subscribers, _wildcard_subscribers, next_uuid >>
downstreamVars == << threads, ioloop_callbacks, queues, calls >>
throttleVars == << _max_threads, start_fails, slept >>
passVars == << copied, wcopied, npass, begun >>
histVars == << published, dropped, handed, subscribed, unsubscribed >>
errorVars == << logged, errored >>
unitVars == << _process, _started, _start_time >>
configVars == << _grace_period, _register, _name, _args >>
osVars == << proc, next_pid >>
clockVars == << now, next_tick >>
jobVars == << wpc, windex, registered_process >>
watchdogHist == << restarts, skipped, failed, released, ticked >>
watchdogVars == << unitVars, configVars, osVars, clockVars, jobVars,
                  registered_items, frame, watchdogHist >>
\* an API request handler
apiVars == << request, response >>
cameraFields == << _frame_reader, _capture_frames, _thread_stuck, connected,
                  _poll_timer, decode_error, pipe >>
threadJobVars == << tpc, tcopy, tunit >>
cameraVars == << cameraFields, reader, thread_items, threadJobVars, cpc,
                trestarts >>
\* what no step of the data bus without a failure touches
otherVars == << errorVars, watchdogVars, cameraVars, parked, retry,
               apiVars >>
\* the same for the steps of the throttle loop
spawnOtherVars == << errorVars, watchdogVars, cameraVars, parked,
                    apiVars >>
\* the state of the data bus
busVars == << registryVars, _data_queue, raised, ppc, pitem, workerVars,
             parked, downstreamVars, throttleVars, retry, histVars, passVars,
             errorVars, apiVars >>

\* the item publish_data makes of self.current_frame, a frame read from the
\* pipe
current_frame ==
    [data_topic |-> frame_bytes_topic, data |-> "x", mid |-> 0,
     producer |-> "camera"]

(* ----------------------------- publishers ------------------------------ *)
\* publish_data with a mailbox built one slot too large
publish_data_grows(p, data_topic, data) ==
    /\ ppc[p] = "idle"
    /\ LET item == [data_topic |-> data_topic, data |-> data,
                    mid |-> Len(published) + 1, producer |-> p]
       IN /\ _data_queue' = pop_if_full(_data_queue, DataQueueMaxSize + 1, item)
          /\ dropped' = IF Len(_data_queue) >= DataQueueMaxSize + 1
                        THEN dropped \cup {Head(_data_queue).mid}
                        ELSE dropped
          /\ published' = Append(published, item)
          /\ pitem' = [pitem EXCEPT ![p] = item]
    /\ ppc' = [ppc EXCEPT ![p] = "return"]
    /\ UNCHANGED otherVars
    /\ UNCHANGED << registryVars, raised, workerVars, downstreamVars,
                    throttleVars, handed, subscribed, unsubscribed, passVars >>

\* publish_data with a blocking Queue.put in place of pop_if_full
publish_data_blocks(p, data_topic, data) ==
    /\ ppc[p] = "idle"
    /\ Len(_data_queue) < DataQueueMaxSize
    /\ LET item == [data_topic |-> data_topic, data |-> data,
                    mid |-> Len(published) + 1, producer |-> p]
       IN /\ _data_queue' = Append(_data_queue, item)
          /\ published' = Append(published, item)
          /\ pitem' = [pitem EXCEPT ![p] = item]
    /\ ppc' = [ppc EXCEPT ![p] = "return"]
    /\ UNCHANGED otherVars
    /\ UNCHANGED << registryVars, raised, workerVars, downstreamVars,
                    throttleVars, dropped, handed, subscribed, unsubscribed,
                    passVars >>

\* publish_data(data_topic, data): pop_if_full onto the mailbox
publish_data(p, data_topic, data) ==
    /\ ppc[p] = "idle"
    /\ LET item == [data_topic |-> data_topic, data |-> data,
                    mid |-> Len(published) + 1, producer |-> p]
       IN /\ _data_queue' = pop_if_full(_data_queue, DataQueueMaxSize, item)
          /\ dropped' = IF Len(_data_queue) >= DataQueueMaxSize
                        THEN dropped \cup {Head(_data_queue).mid}
                        ELSE dropped
          /\ published' = Append(published, item)
          /\ pitem' = [pitem EXCEPT ![p] = item]
    /\ ppc' = [ppc EXCEPT ![p] = "return"]
    /\ UNCHANGED otherVars
    /\ UNCHANGED << registryVars, raised, workerVars, downstreamVars,
                    throttleVars, handed, subscribed,
                    unsubscribed, passVars >>

\* the return of publish_data to its caller
publish_return(p) ==
    /\ ppc[p] = "return"
    /\ ppc' = [ppc EXCEPT ![p] = "idle"]
    /\ pitem' = [pitem EXCEPT ![p] = NoItem]
    /\ UNCHANGED otherVars
    /\ UNCHANGED << registryVars, raised, _data_queue, workerVars,
                    downstreamVars, throttleVars, published, dropped, handed,
                    subscribed,
                    unsubscribed, passVars >>

(* ------------------------------ registry ------------------------------- *)
\* registry[data_topic] = {unique_id: DataSubscriber(...)}
SetItemReplace(reg, data_topic, sub) ==
    IF HasKey(reg, data_topic)
    THEN [reg EXCEPT ![KeyIndex(reg, data_topic)].callbacks = <<sub>>]
    ELSE Append(reg, [data_topic |-> data_topic, callbacks |-> <<sub>>])

\* dict.setdefault(data_topic, {})[unique_id] = DataSubscriber(...)
SetDefaultInsert(reg, data_topic, sub) ==
    IF HasKey(reg, data_topic)
    THEN [reg EXCEPT ![KeyIndex(reg, data_topic)].callbacks = Append(@, sub)]
    ELSE Append(reg, [data_topic |-> data_topic, callbacks |-> <<sub>>])

\* subscribe_data(data_topic, callback, ioloop) -> unique_id
subscribe_data(data_topic, target) ==
    /\ LET sub == [id |-> next_uuid, callback |-> target.callback,
                   ioloop |-> target.ioloop]
       IN IF HasStar(data_topic)
          THEN /\ _wildcard_subscribers' =
                      SetDefaultInsert(_wildcard_subscribers, data_topic, sub)
               /\ UNCHANGED _subscribers
          ELSE /\ _subscribers' = SetDefaultInsert(_subscribers, data_topic, sub)
               /\ UNCHANGED _wildcard_subscribers
    /\ next_uuid' = next_uuid + 1
    /\ raised' = "none"
    /\ subscribed' = subscribed @@
         (next_uuid :> [data_topic |-> data_topic, at |-> Len(published)])
    /\ queues' = IF target.callback \in {"Queue", "tornado_queue"}
                 THEN queues @@ (next_uuid :> <<>>) ELSE queues
    /\ UNCHANGED otherVars
    /\ UNCHANGED << _data_queue, ppc, pitem, workerVars, threads,
                    ioloop_callbacks, calls, throttleVars, published, dropped,
                    handed, unsubscribed, passVars >>

\* a pop that removes nothing
PopIdKeeps(reg, data_topic, unique_id) == reg

\* registry[data_topic].pop(unique_id): the registry afterwards
PopId(reg, data_topic, unique_id) ==
    [reg EXCEPT ![KeyIndex(reg, data_topic)].callbacks = RemoveId(@, unique_id)]

\* registry[data_topic].pop(unique_id) raises KeyError
PopRaises(reg, data_topic, unique_id) ==
    \/ ~HasKey(reg, data_topic)
    \/ ~HasId(Get(reg, data_topic), unique_id)

\* unsubscribe_data(data_topic, unique_id)
unsubscribe_data(data_topic, unique_id) ==
    /\ LET wild == HasStar(data_topic)
           reg == IF wild THEN _wildcard_subscribers ELSE _subscribers
       IN IF PopRaises(reg, data_topic, unique_id)
          THEN /\ raised' = "KeyError"
               /\ UNCHANGED << registryVars, unsubscribed >>
          ELSE /\ raised' = "none"
               /\ IF wild
                  THEN /\ _wildcard_subscribers' =
                              PopId(reg, data_topic, unique_id)
                       /\ UNCHANGED _subscribers
                  ELSE /\ _subscribers' = PopId(reg, data_topic, unique_id)
                       /\ UNCHANGED _wildcard_subscribers
               /\ UNCHANGED next_uuid
               /\ unsubscribed' = unsubscribed @@
                    (unique_id :>
                       [at |-> Len(published),
                        inflight |-> IF pc \in {"run", "spawn"}
                                        /\ HasId(callbacks, unique_id)
                                     THEN data_item.mid ELSE 0])
    /\ UNCHANGED otherVars
    /\ UNCHANGED << _data_queue, ppc, pitem, workerVars, downstreamVars,
                    throttleVars, published, dropped, handed, subscribed,
                    passVars >>

(* --------------------------- dispatch worker --------------------------- *)
\* ids registered for a topic, in either registry, at this moment
RECURSIVE WildcardIds(_, _)
WildcardIds(reg, data_topic) ==
    IF reg = <<>> THEN {}
    ELSE (IF fnmatch(data_topic, Head(reg).data_topic)
          THEN SeqToSet(Ids(Head(reg).callbacks)) ELSE {})
         \cup WildcardIds(Tail(reg), data_topic)

MatchingIds(data_topic) ==
    SeqToSet(Ids(Get(_subscribers, data_topic)))
        \cup WildcardIds(_wildcard_subscribers, data_topic)

\* the record of one hand-off made by run_callbacks
HandOff(cb, mode, args) ==
    [id |-> cb.id, mid |-> data_item.mid, mode |-> mode, args |-> args,
     key |-> IF caller = "static_subscriptions" THEN data_item.data_topic
             ELSE wcopied[Len(wcopied) - Len(wcopy)],
     late |-> cb.id \in DOMAIN unsubscribed, pass |-> npass]

\* iteration over the registry entry itself, not over a copy of it
NextCallbacksLive ==
    LET live == IF caller = "static_subscriptions"
                THEN Get(_subscribers, data_item.data_topic)
                ELSE Get(_wildcard_subscribers,
                         wcopied[Len(wcopied) - Len(wcopy)])
    IN SelectSeq(Tail(callbacks), LAMBDA c : HasId(live, c.id))

\* for callback in callbacks.copy().values(): the rest of the iteration
NextCallbacks == Tail(callbacks)

\* consume_data taking the newest item of the mailbox
consume_data_lifo ==
    /\ pc = "get"
    /\ _data_queue # <<>>
    /\ data_item' = _data_queue[Len(_data_queue)]
    /\ _data_queue' = SubSeq(_data_queue, 1, Len(_data_queue) - 1)
    /\ pc' = "static"
    /\ UNCHANGED otherVars
    /\ UNCHANGED << registryVars, raised, ppc, pitem, callbacks, wcopy, thread,
                    caller, downstreamVars, throttleVars, published, dropped,
                    handed, subscribed, unsubscribed, passVars >>

\* consume_data that goes from the get() to wildcard_subscriptions
consume_data_wildcard_only ==
    /\ pc = "get"
    /\ _data_queue # <<>>
    /\ data_item' = Head(_data_queue)
    /\ _data_queue' = Tail(_data_queue)
    /\ pc' = "wild"
    /\ UNCHANGED otherVars
    /\ UNCHANGED << registryVars, raised, ppc, pitem, callbacks, wcopy, thread,
                    caller, downstreamVars, throttleVars, published, dropped,
                    handed, subscribed, unsubscribed, passVars >>

\* consume_data: data_item = self._data_queue.get()
consume_data ==
    /\ pc = "get"
    /\ _data_queue # <<>>
    /\ data_item' = Head(_data_queue)
    /\ _data_queue' = Tail(_data_queue)
    /\ pc' = "static"
    /\ UNCHANGED otherVars
    /\ UNCHANGED << registryVars, raised, ppc, pitem, callbacks, wcopy, thread,
                    caller, downstreamVars, throttleVars, published, dropped,
                    handed, subscribed,
                    unsubscribed, passVars >>

\* static_subscriptions that looks the topic up in the wildcard registry
static_subscriptions_wild ==
    /\ pc = "static"
    /\ callbacks' = Get(_wildcard_subscribers, data_item.data_topic)
    /\ copied' = callbacks'
    /\ npass' = npass + 1
    /\ begun' = begun @@ (data_item.mid :> MatchingIds(data_item.data_topic))
    /\ pc' = "run"
    /\ caller' = "static_subscriptions"
    /\ UNCHANGED otherVars
    /\ UNCHANGED << registryVars, raised, _data_queue, ppc, pitem, data_item,
                    wcopy, thread, downstreamVars, throttleVars, published,
                    dropped, handed, subscribed, unsubscribed, wcopied >>

\* static_subscriptions: run_callbacks(_subscribers.get(topic, {}), data),
\* up to the callbacks.copy() that opens run_callbacks
static_subscriptions ==
    /\ pc = "static"
    /\ callbacks' = Get(_subscribers, data_item.data_topic)
    /\ copied' = callbacks'
    /\ npass' = npass + 1
    /\ begun' = begun @@ (data_item.mid :> MatchingIds(data_item.data_topic))
    /\ pc' = "run"
    /\ caller' = "static_subscriptions"
    /\ UNCHANGED otherVars
    /\ UNCHANGED << registryVars, raised, _data_queue, ppc, pitem, data_item,
                    wcopy, thread, downstreamVars, throttleVars, published,
                    dropped, handed, subscribed,
                    unsubscribed, wcopied >>

\* run_callbacks that returns at the first target that is not valid
run_callbacks_return ==
    /\ pc = "run"
    /\ IF callbacks = <<>>
       THEN /\ pc' = IF caller = "static_subscriptions" THEN "wild" ELSE "match"
            /\ UNCHANGED << callbacks, thread, threads, ioloop_callbacks,
                            queues, handed, logged >>
       ELSE LET cb == Head(callbacks)
                data == data_item.data
            IN IF cb.callback = "callable" /\ cb.ioloop = None
               THEN \* threading.Thread(target=..., args=(data,)) or without args
                    /\ thread' = [id |-> cb.id, mid |-> data_item.mid,
                                  args |-> CallArgs(data)]
                    /\ pc' = "spawn"
                    /\ UNCHANGED << callbacks, threads, ioloop_callbacks,
                                    queues, handed, logged >>
               ELSE /\ callbacks' =
                          IF \/ cb.callback \in {"callable", "Queue"}
                             \/ cb.ioloop # None /\ cb.callback = "tornado_queue"
                          THEN NextCallbacks ELSE <<>>
                    /\ pc' = "run"
                    /\ UNCHANGED << thread, threads >>
                    /\ IF cb.callback = "callable"
                       THEN \* ioloop.add_callback(callback, data) or without data
                            /\ ioloop_callbacks' = Append(ioloop_callbacks,
                                 [fn |-> "callback", id |-> cb.id,
                                  mid |-> data_item.mid, args |-> CallArgs(data)])
                            /\ handed' = Append(handed,
                                 HandOff(cb, "scheduler", CallArgs(data)))
                            /\ UNCHANGED << queues, logged >>
                       ELSE IF cb.callback = "Queue"
                       THEN \* helpers.pop_if_full(callback, data)
                            /\ queues' = [queues EXCEPT ![cb.id] =
                                 pop_if_full(@, RelayQueueMaxSize,
                                     [mid |-> data_item.mid, data |-> data])]
                            /\ handed' = Append(handed,
                                 HandOff(cb, "relay", <<data>>))
                            /\ UNCHANGED << ioloop_callbacks, logged >>
                       ELSE IF cb.ioloop # None /\ cb.callback = "tornado_queue"
                       THEN \* ioloop.add_callback(pop_if_full, callback, data)
                            /\ ioloop_callbacks' = Append(ioloop_callbacks,
                                 [fn |-> "pop_if_full", id |-> cb.id,
                                  mid |-> data_item.mid, args |-> <<data>>])
                            /\ handed' = Append(handed,
                                 HandOff(cb, "scheduler_relay", <<data>>))
                            /\ UNCHANGED << queues, logged >>
                       ELSE \* LOGGER.error("Callback ... is not valid")
                            /\ logged' = Append(logged,
                                 [id |-> cb.id, mid |-> data_item.mid,
                                  pass |-> npass])
                            /\ UNCHANGED << ioloop_callbacks, queues, handed >>
    /\ UNCHANGED << errored, watchdogVars, cameraVars, parked, retry,
                    apiVars >>
    /\ UNCHANGED << registryVars, raised, _data_queue, ppc, pitem, data_item,
                    wcopy, caller, calls, throttleVars, published, dropped,
                    subscribed,
                    unsubscribed, passVars >>

\* run_callbacks that starts a thread for every callable target
run_callbacks_threads ==
    /\ pc = "run"
    /\ IF callbacks = <<>>
       THEN /\ pc' = IF caller = "static_subscriptions" THEN "wild" ELSE "match"
            /\ UNCHANGED << callbacks, thread, threads, ioloop_callbacks,
                            queues, handed, logged >>
       ELSE LET cb == Head(callbacks)
                data == data_item.data
            IN IF cb.callback = "callable"
               THEN \* threading.Thread(target=..., args=(data,)) or without args
                    /\ thread' = [id |-> cb.id, mid |-> data_item.mid,
                                  args |-> CallArgs(data)]
                    /\ pc' = "spawn"
                    /\ UNCHANGED << callbacks, threads, ioloop_callbacks,
                                    queues, handed, logged >>
               ELSE /\ callbacks' = NextCallbacks
                    /\ pc' = "run"
                    /\ UNCHANGED << thread, threads >>
                    /\ IF cb.callback = "callable"
                       THEN \* ioloop.add_callback(callback, data) or without data
                            /\ ioloop_callbacks' = Append(ioloop_callbacks,
                                 [fn |-> "callback", id |-> cb.id,
                                  mid |-> data_item.mid, args |-> CallArgs(data)])
                            /\ handed' = Append(handed,
                                 HandOff(cb, "scheduler", CallArgs(data)))
                            /\ UNCHANGED << queues, logged >>
                       ELSE IF cb.callback = "Queue"
                       THEN \* helpers.pop_if_full(callback, data)
                            /\ queues' = [queues EXCEPT ![cb.id] =
                                 pop_if_full(@, RelayQueueMaxSize,
                                     [mid |-> data_item.mid, data |-> data])]
                            /\ handed' = Append(handed,
                                 HandOff(cb, "relay", <<data>>))
                            /\ UNCHANGED << ioloop_callbacks, logged >>
                       ELSE IF cb.ioloop # None /\ cb.callback = "tornado_queue"
                       THEN \* ioloop.add_callback(pop_if_full, callback, data)
                            /\ ioloop_callbacks' = Append(ioloop_callbacks,
                                 [fn |-> "pop_if_full", id |-> cb.id,
                                  mid |-> data_item.mid, args |-> <<data>>])
                            /\ handed' = Append(handed,
                                 HandOff(cb, "scheduler_relay", <<data>>))
                            /\ UNCHANGED << queues, logged >>
                       ELSE \* LOGGER.error("Callback ... is not valid")
                            /\ logged' = Append(logged,
                                 [id |-> cb.id, mid |-> data_item.mid,
                                  pass |-> npass])
                            /\ UNCHANGED << ioloop_callbacks, queues, handed >>
    /\ UNCHANGED << errored, watchdogVars, cameraVars, parked, retry,
                    apiVars >>
    /\ UNCHANGED << registryVars, raised, _data_queue, ppc, pitem, data_item,
                    wcopy, caller, calls, throttleVars, published, dropped,
                    subscribed,
                    unsubscribed, passVars >>

\* run_callbacks: one iteration of the for loop, for every target but a
\* callable without ioloop, and the end of the loop
run_callbacks ==
    /\ pc = "run"
    /\ IF callbacks = <<>>
       THEN /\ pc' = IF caller = "static_subscriptions" THEN "wild" ELSE "match"
            /\ UNCHANGED << callbacks, thread, threads, ioloop_callbacks,
                            queues, handed, logged >>
       ELSE LET cb == Head(callbacks)
                data == data_item.data
            IN IF cb.callback = "callable" /\ cb.ioloop = None
               THEN \* threading.Thread(target=..., args=(data,)) or without args
                    /\ thread' = [id |-> cb.id, mid |-> data_item.mid,
                                  args |-> CallArgs(data)]
                    /\ pc' = "spawn"
                    /\ UNCHANGED << callbacks, threads, ioloop_callbacks,
                                    queues, handed, logged >>
               ELSE /\ callbacks' = NextCallbacks
                    /\ pc' = "run"
                    /\ UNCHANGED << thread, threads >>
                    /\ IF cb.callback = "callable"
                       THEN \* ioloop.add_callback(callback, data) or without data
                            /\ ioloop_callbacks' = Append(ioloop_callbacks,
                                 [fn |-> "callback", id |-> cb.id,
                                  mid |-> data_item.mid, args |-> CallArgs(data)])
                            /\ handed' = Append(handed,
                                 HandOff(cb, "scheduler", CallArgs(data)))
                            /\ UNCHANGED << queues, logged >>
                       ELSE IF cb.callback = "Queue"
                       THEN \* helpers.pop_if_full(callback, data)
                            /\ queues' = [queues EXCEPT ![cb.id] =
                                 pop_if_full(@, RelayQueueMaxSize,
                                     [mid |-> data_item.mid, data |-> data])]
                            /\ handed' = Append(handed,
                                 HandOff(cb, "relay", <<data>>))
                            /\ UNCHANGED << ioloop_callbacks, logged >>
                       ELSE IF cb.ioloop # None /\ cb.callback = "tornado_queue"
                       THEN \* ioloop.add_callback(pop_if_full, callback, data)
                            /\ ioloop_callbacks' = Append(ioloop_callbacks,
                                 [fn |-> "pop_if_full", id |-> cb.id,
                                  mid |-> data_item.mid, args |-> <<data>>])
                            /\ handed' = Append(handed,
                                 HandOff(cb, "scheduler_relay", <<data>>))
                            /\ UNCHANGED << queues, logged >>
                       ELSE \* LOGGER.error("Callback ... is not valid")
                            /\ logged' = Append(logged,
                                 [id |-> cb.id, mid |-> data_item.mid,
                                  pass |-> npass])
                            /\ UNCHANGED << ioloop_callbacks, queues, handed >>
    /\ UNCHANGED << errored, watchdogVars, cameraVars, parked, retry,
                    apiVars >>
    /\ UNCHANGED << registryVars, raised, _data_queue, ppc, pitem, data_item,
                    wcopy, caller, calls, throttleVars, published, dropped,
                    subscribed,
                    unsubscribed, passVars >>

\* run_callbacks, while True: the throttle branch (time.sleep(0.01); continue)
throttle_sleep ==
    /\ pc = "spawn"
    /\ active_count > _max_threads
    /\ slept' = Min(slept + 1, MaxSleep)
    /\ retry' = IF retry = "failed" THEN "paused" ELSE retry
    /\ UNCHANGED spawnOtherVars
    /\ UNCHANGED << registryVars, raised, _data_queue, ppc, pitem, workerVars,
                    downstreamVars, _max_threads, start_fails, published,
                    dropped, handed, subscribed,
                    unsubscribed, passVars >>

\* run_callbacks, while True: thread.start() succeeds; break; continue
thread_start ==
    /\ pc = "spawn"
    /\ active_count <= _max_threads
    /\ threads' = threads \cup {thread}
    /\ handed' = Append(handed, HandOff(Head(callbacks), "direct", thread.args))
    /\ thread' = NoThread
    /\ callbacks' = NextCallbacks
    /\ pc' = "run"
    /\ retry' = IF retry = "failed" THEN "immediate"
                 ELSE IF retry = "paused" THEN "after_pause" ELSE "none"
    /\ UNCHANGED spawnOtherVars
    /\ UNCHANGED << registryVars, raised, _data_queue, ppc, pitem, data_item,
                    wcopy, caller, ioloop_callbacks, queues, calls,
                    throttleVars, published, dropped, subscribed,
                    unsubscribed, passVars >>

\* the except clause with self._max_threads = int(self._max_threads * 0.95)
thread_start_fails_ceiling ==
    /\ pc = "spawn"
    /\ active_count <= _max_threads
    /\ start_fails < MaxStartFail
    /\ start_fails' = start_fails + 1
    /\ _max_threads' = (_max_threads * 95) \div 100
    /\ retry' = "failed"
    /\ UNCHANGED spawnOtherVars
    /\ UNCHANGED << registryVars, raised, _data_queue, ppc, pitem, workerVars,
                    downstreamVars, slept, published, dropped, handed,
                    subscribed,
                    unsubscribed, passVars >>

\* run_callbacks, while True: thread.start() raises
\* RuntimeError("can't start new thread"); the ceiling is revised; continue
thread_start_fails ==
    /\ pc = "spawn"
    /\ active_count <= _max_threads
    /\ start_fails < MaxStartFail
    /\ start_fails' = start_fails + 1
    /\ _max_threads' = (active_count * 95) \div 100
    /\ retry' = "failed"
    /\ UNCHANGED spawnOtherVars
    /\ UNCHANGED << registryVars, raised, _data_queue, ppc, pitem, workerVars,
                    downstreamVars, slept, published, dropped, handed,
                    subscribed,
                    unsubscribed, passVars >>

\* run_callbacks, while True: thread.start() raises a RuntimeError whose
\* message does not contain "can't start new thread": the except clause
\* does nothing, the loop is left by break and the for loop continues
thread_start_raises ==
    /\ pc = "spawn"
    /\ active_count <= _max_threads
    /\ start_fails < MaxStartFail
    /\ start_fails' = start_fails + 1
    /\ thread' = NoThread
    /\ callbacks' = NextCallbacks
    /\ pc' = "run"
    /\ retry' = IF retry = "failed" THEN "immediate"
                 ELSE IF retry = "paused" THEN "after_pause" ELSE "none"
    /\ UNCHANGED spawnOtherVars
    /\ UNCHANGED << registryVars, raised, _data_queue, ppc, pitem, data_item,
                    wcopy, caller, downstreamVars, _max_threads, slept,
                    published, dropped, handed, subscribed, unsubscribed,
                    passVars >>

\* run_callbacks: callback["ioloop"].add_callback(...) raises (the loop is
\* closed); no frame between it and consume_data catches, so the exception
\* leaves consume_data and the data_stream thread ends
add_callback_raises ==
    /\ pc = "run"
    /\ callbacks # <<>>
    /\ LET cb == Head(callbacks)
       IN /\ cb.ioloop # None
          /\ cb.callback \in {"callable", "tornado_queue"}
          /\ errored' = errored \cup {[id |-> cb.id, mid |-> data_item.mid]}
    /\ pc' = "dead"
    /\ data_item' = NoItem
    /\ callbacks' = <<>>
    /\ wcopy' = <<>>
    /\ caller' = "none"
    /\ UNCHANGED << registryVars, raised, _data_queue, ppc, pitem, thread,
                    downstreamVars, throttleVars, histVars, passVars, logged,
                    watchdogVars, cameraVars, parked, retry,
                    apiVars >>

\* the thread watchdog finds the data_stream thread dead and starts it
\* again: consume_data runs from its beginning
data_consumer_restart ==
    /\ pc = "dead"
    /\ pc' = "get"
    /\ UNCHANGED otherVars
    /\ UNCHANGED << registryVars, raised, _data_queue, ppc, pitem, data_item,
                    callbacks, wcopy, thread, caller, downstreamVars,
                    throttleVars, histVars, passVars >>

\* wildcard_subscriptions: _wildcard_subscribers.copy().items()
wildcard_subscriptions ==
    /\ pc = "wild"
    /\ wcopy' = Keys(_wildcard_subscribers)
    /\ wcopied' = wcopy'
    /\ pc' = "match"
    /\ UNCHANGED otherVars
    /\ UNCHANGED << registryVars, raised, _data_queue, ppc, pitem, data_item,
                    callbacks, thread, caller, downstreamVars, throttleVars,
                    published, dropped, handed, subscribed,
                    unsubscribed, copied, npass,
                    begun >>

\* wildcard_subscriptions: one iteration of the for loop up to the
\* callbacks.copy() of run_callbacks, and the end of the loop
wildcard_match ==
    /\ pc = "match"
    /\ IF wcopy = <<>>
       THEN /\ pc' = "get"
            /\ UNCHANGED << wcopy, callbacks, caller, copied, npass >>
       ELSE /\ wcopy' = Tail(wcopy)
            /\ IF fnmatch(data_item.data_topic, Head(wcopy))
               THEN /\ callbacks' = Get(_wildcard_subscribers, Head(wcopy))
                    /\ copied' = callbacks'
                    /\ npass' = npass + 1
                    /\ caller' = "wildcard_subscriptions"
                    /\ pc' = "run"
               ELSE UNCHANGED << pc, callbacks, caller, copied, npass >>
    /\ UNCHANGED otherVars
    /\ UNCHANGED << registryVars, raised, _data_queue, ppc, pitem, data_item,
                    thread, downstreamVars, throttleVars, published, dropped,
                    handed, subscribed,
                    unsubscribed, wcopied, begun >>

(* ----------------------------- downstream ------------------------------ *)
\* a started delivery thread runs its target
thread_run(t) ==
    /\ t \in threads
    /\ threads' = threads \ {t}
    /\ calls' = Append(calls, [id |-> t.id, mid |-> t.mid, args |-> t.args,
                                mode |-> "direct"])
    /\ UNCHANGED otherVars
    /\ UNCHANGED << registryVars, raised, _data_queue, ppc, pitem, workerVars,
                    ioloop_callbacks, queues, throttleVars, published, dropped,
                    handed, subscribed,
                    unsubscribed, passVars >>

\* the scheduler runs the oldest callback of its FIFO
ioloop_run ==
    /\ ioloop_callbacks # <<>>
    /\ LET c == Head(ioloop_callbacks)
       IN IF c.fn = "callback"
          THEN /\ calls' = Append(calls,
                     [id |-> c.id, mid |-> c.mid, args |-> c.args,
                      mode |-> "scheduler"])
               /\ UNCHANGED queues
          ELSE /\ queues' = [queues EXCEPT ![c.id] =
                     pop_if_full(@, RelayQueueMaxSize,
                         [mid |-> c.mid, data |-> c.args[1]])]
               /\ UNCHANGED calls
    /\ ioloop_callbacks' = Tail(ioloop_callbacks)
    /\ UNCHANGED otherVars
    /\ UNCHANGED << registryVars, raised, _data_queue, ppc, pitem, workerVars,
                    threads, throttleVars, published, dropped, handed,
                    subscribed,
                    unsubscribed, passVars >>

(* --------------------------- process units ----------------------------- *)
\* RestartableProcess.is_alive
is_alive(u) == _process[u] # NoProcess /\ proc[_process[u]] = "running"

\* ProcessWatchDog.register(item): the list is appended to
register(items, u) == Append(items, u)

\* ProcessWatchDog.unregister(item): the first occurrence is removed
unregister(items, u) ==
    IF \E i \in 1..Len(items) : items[i] = u
    THEN LET k == CHOOSE i \in 1..Len(items) :
                    items[i] = u /\ \A j \in 1..(i - 1) : items[j] # u
         IN SubSeq(items, 1, k - 1) \o SubSeq(items, k + 1, Len(items))
    ELSE items

\* the unit has no mp.Process yet, or one whose start() has returned: only
\* such a process has the Popen object that terminate(), join() and kill() use
launched(u) == _process[u] = NoProcess \/ proc[_process[u]] # "unstarted"

\* RestartableProcess.__init__(*args, name, grace_period, register)
RestartableProcess(u, grace_period, do_register) ==
    /\ _name[u] = "none"
    /\ _name' = [_name EXCEPT ![u] = u]
    /\ _args' = [_args EXCEPT ![u] = <<"target", u>>]
    /\ _grace_period' = [_grace_period EXCEPT ![u] = grace_period]
    /\ _register' = [_register EXCEPT ![u] = do_register]
    /\ UNCHANGED << unitVars, osVars, clockVars, jobVars, registered_items,
                    frame, watchdogHist, busVars, cameraVars >>

\* a start() that leaves self._start_time as it is
start_keeps_time(u) ==
    /\ _process' = [_process EXCEPT ![u] = next_pid]
    /\ UNCHANGED _start_time
    /\ _started' = [_started EXCEPT ![u] = TRUE]
    /\ proc' = proc @@ (next_pid :> "running")
    /\ next_pid' = next_pid + 1
    /\ registered_items' = IF _register[u] THEN register(registered_items, u)
                           ELSE registered_items

\* RestartableProcess.start: what it does to the unit, the OS and the registry
start(u) ==
    /\ _process' = [_process EXCEPT ![u] = next_pid]
    /\ _start_time' = [_start_time EXCEPT ![u] = now]
    /\ _started' = [_started EXCEPT ![u] = TRUE]
    /\ proc' = proc @@ (next_pid :> "running")
    /\ next_pid' = next_pid + 1
    /\ registered_items' = IF _register[u] THEN register(registered_items, u)
                           ELSE registered_items

\* the application starts a unit it has constructed
call_start(u) ==
    /\ _name[u] # "none"
    /\ _process[u] = NoProcess
    /\ \A c \in Callers : frame[c].unit # u
    /\ start(u)
    /\ UNCHANGED << configVars, clockVars, jobVars, frame, watchdogHist,
                    busVars, cameraVars >>

\* the child process ends by itself (it crashes, finishes or obeys SIGTERM)
process_exits(pid) ==
    /\ pid \in DOMAIN proc
    /\ proc[pid] = "running"
    /\ proc' = [proc EXCEPT ![pid] = "exited"]
    /\ UNCHANGED << unitVars, configVars, next_pid, clockVars, jobVars,
                    registered_items, frame, watchdogHist, busVars, cameraVars >>

\* RestartableProcess.restart(timeout), up to self._process.terminate()
restart(c, u, timeout) ==
    /\ frame[c].pc = "idle"
    /\ launched(u)
    /\ _started' = [_started EXCEPT ![u] = FALSE]
    /\ frame' = [frame EXCEPT ![c] =
                    [pc |-> IF _process[u] # NoProcess THEN "join" ELSE "start",
                     unit |-> u, timeout |-> timeout, since |-> now,
                     old |-> _process[u]]]
    /\ restarts' = Append(restarts,
                     [caller |-> c, unit |-> u, tick |-> ticked, at |-> now,
                      elapsed |-> now - _start_time[u],
                      grace_period |-> _grace_period[u],
                      alive |-> is_alive(u), timeout |-> timeout])
    /\ UNCHANGED << _process, _start_time, configVars, osVars, clockVars,
                    registered_items, skipped, failed, released, ticked,
                    busVars, cameraVars >>

\* restart: self._process.join(timeout=timeout) returns
restart_join(c) ==
    /\ frame[c].pc = "join"
    /\ \/ ~is_alive(frame[c].unit)
       \/ /\ frame[c].timeout # NoTimeout
          /\ now >= frame[c].since + frame[c].timeout
    /\ frame' = [frame EXCEPT ![c].pc = "kill"]
    /\ UNCHANGED << unitVars, configVars, osVars, clockVars, jobVars,
                    registered_items, watchdogHist, busVars, cameraVars >>

\* a restart that does not kill
restart_kill_spares(c) ==
    /\ frame[c].pc = "kill"
    /\ frame' = [frame EXCEPT ![c].pc = "start"]
    /\ UNCHANGED << unitVars, configVars, osVars, clockVars, jobVars,
                    registered_items, watchdogHist, busVars, cameraVars >>

\* restart: self._process.kill()
restart_kill(c) ==
    /\ frame[c].pc = "kill"
    /\ proc' = IF is_alive(frame[c].unit)
               THEN [proc EXCEPT ![_process[frame[c].unit]] = "exited"]
               ELSE proc
    /\ frame' = [frame EXCEPT ![c].pc = "start"]
    /\ UNCHANGED << unitVars, configVars, next_pid, clockVars, jobVars,
                    registered_items, watchdogHist, busVars, cameraVars >>

\* restart: self.start(), and the return to the caller
restart_start(c) ==
    /\ frame[c].pc = "start"
    /\ start(frame[c].unit)
    /\ frame' = [frame EXCEPT ![c] = NoFrame]
    /\ IF c = "watchdog"
       THEN /\ wpc' = "loop"
            /\ windex' = windex + 1
            /\ UNCHANGED registered_process
       ELSE UNCHANGED jobVars
    /\ UNCHANGED << configVars, clockVars, watchdogHist, busVars, cameraVars >>

\* RestartableProcess.start when self._process.start() raises because the
\* operating system refuses a new process: the handle, the start time and the
\* flag are already written, the registration is not reached
start_raises(u) ==
    /\ _process' = [_process EXCEPT ![u] = next_pid]
    /\ _start_time' = [_start_time EXCEPT ![u] = now]
    /\ _started' = [_started EXCEPT ![u] = TRUE]
    /\ proc' = proc @@ (next_pid :> "unstarted")
    /\ next_pid' = next_pid + 1
    /\ UNCHANGED registered_items

\* restart: self.start() raises; the exception leaves restart() and, for the
\* watchdog, ends the job of this tick
restart_start_raises(c) ==
    /\ frame[c].pc = "start"
    /\ start_raises(frame[c].unit)
    /\ frame' = [frame EXCEPT ![c] = NoFrame]
    /\ failed' = Append(failed, [caller |-> c, unit |-> frame[c].unit,
                                 tick |-> ticked, at |-> now,
                                 line |-> 76])
    /\ IF c = "watchdog"
       THEN /\ wpc' = "idle"
            /\ UNCHANGED << windex, registered_process >>
       ELSE UNCHANGED jobVars
    /\ UNCHANGED << configVars, clockVars, restarts, skipped, released,
                    ticked, busVars, cameraVars >>

\* RestartableProcess.restart on a unit whose mp.Process was never launched:
\* self._process.terminate() raises AttributeError after the flag is cleared
restart_raises(c, u) ==
    /\ frame[c].pc = "idle"
    /\ ~launched(u)
    /\ _started' = [_started EXCEPT ![u] = FALSE]
    /\ restarts' = Append(restarts,
                     [caller |-> c, unit |-> u, tick |-> ticked, at |-> now,
                      elapsed |-> now - _start_time[u],
                      grace_period |-> _grace_period[u],
                      alive |-> is_alive(u), timeout |-> NoTimeout])
    /\ failed' = Append(failed, [caller |-> c, unit |-> u, tick |-> ticked,
                                 at |-> now, line |-> 84])
    /\ UNCHANGED << _process, _start_time, configVars, osVars, clockVars,
                    registered_items, frame, skipped, released, ticked,
                    busVars, cameraVars >>

\* the application calls restart(timeout) on a unit it has started
call_restart(u, timeout) ==
    /\ _process[u] # NoProcess
    /\ restart("app", u, timeout)
    /\ UNCHANGED jobVars

\* RestartableProcess.terminate
terminate(u) ==
    /\ _name[u] # "none"
    /\ _started' = [_started EXCEPT ![u] = FALSE]
    /\ registered_items' = unregister(registered_items, u)
    /\ released' = [released EXCEPT ![u] = next_pid]
    /\ UNCHANGED << _process, _start_time, configVars, osVars, clockVars,
                    jobVars, frame, restarts, skipped, failed, ticked,
                    busVars, cameraVars >>

\* RestartableProcess.kill
kill(u) ==
    /\ _name[u] # "none"
    /\ _started' = [_started EXCEPT ![u] = FALSE]
    /\ registered_items' = unregister(registered_items, u)
    /\ proc' = IF is_alive(u) THEN [proc EXCEPT ![_process[u]] = "exited"]
               ELSE proc
    /\ released' = [released EXCEPT ![u] = next_pid]
    /\ UNCHANGED << _process, _start_time, configVars, next_pid, clockVars,
                    jobVars, frame, restarts, skipped, failed, ticked,
                    busVars, cameraVars >>

(* --------------------------- process watchdog -------------------------- *)
\* time passes; a job that is due and a join whose timeout is over come first,
\* and the watchdog job takes no time unless it waits in join for a process
\* that is alive
time_passes ==
    /\ wpc = "idle" => now < next_tick
    /\ wpc # "idle" => /\ frame["watchdog"].pc = "join"
                       /\ is_alive(frame["watchdog"].unit)
    /\ \A c \in Callers :
          (frame[c].pc = "join" /\ frame[c].timeout # NoTimeout)
              => now < frame[c].since + frame[c].timeout
    /\ now' = now + TimeStep
    /\ UNCHANGED << unitVars, configVars, osVars, next_tick, jobVars,
                    registered_items, frame, watchdogHist, busVars, cameraVars >>

\* a watchdog that knows no grace period
InGraceNever(u) == FALSE

\* a grace period that includes its last instant
InGraceInclusive(u) ==
    /\ _start_time[u] # NoTime
    /\ now - _start_time[u] <= _grace_period[u]

\* now - start_time < grace_period, for a start_time that is set
InGrace(u) ==
    /\ _start_time[u] # NoTime
    /\ now - _start_time[u] < _grace_period[u]

\* the scheduler runs the interval job: watchdog() is entered
watchdog_begin ==
    /\ wpc = "idle"
    /\ now >= next_tick
    /\ wpc' = "loop"
    /\ windex' = 1
    /\ next_tick' = next_tick + TickInterval
    /\ ticked' = ticked + 1
    /\ UNCHANGED << unitVars, configVars, osVars, now, registered_process,
                    registered_items, frame, restarts, skipped, failed, released,
                    busVars, cameraVars >>

\* a watchdog that does not ask whether the process is alive
watchdog_blind ==
    /\ wpc = "loop"
    /\ IF windex > Len(registered_items)
       THEN /\ wpc' = "idle"
            /\ UNCHANGED << windex, registered_process, skipped >>
       ELSE LET u == registered_items[windex]
            IN /\ registered_process' = u
               /\ IF ~_started[u]
                  THEN /\ windex' = windex + 1
                       /\ UNCHANGED << wpc, skipped >>
                  ELSE IF InGrace(u)
                  THEN /\ windex' = windex + 1
                       /\ skipped' = skipped \cup
                            {[unit |-> u, tick |-> ticked,
                              elapsed |-> now - _start_time[u],
                              grace_period |-> _grace_period[u]]}
                       /\ UNCHANGED wpc
                  ELSE /\ wpc' = "call"
                       /\ UNCHANGED << windex, skipped >>
    /\ UNCHANGED << unitVars, configVars, osVars, clockVars, registered_items,
                    frame, restarts, failed, released, ticked, busVars,
                    cameraVars >>

\* ProcessWatchDog.watchdog: one iteration of the for loop up to the call of
\* restart(), and the end of the loop
watchdog ==
    /\ wpc = "loop"
    /\ IF windex > Len(registered_items)
       THEN /\ wpc' = "idle"
            /\ UNCHANGED << windex, registered_process, skipped >>
       ELSE LET u == registered_items[windex]
            IN /\ registered_process' = u
               /\ IF ~_started[u] \/ is_alive(u)
                  THEN /\ windex' = windex + 1
                       /\ UNCHANGED << wpc, skipped >>
                  ELSE IF InGrace(u)
                  THEN /\ windex' = windex + 1
                       /\ skipped' = skipped \cup
                            {[unit |-> u, tick |-> ticked,
                              elapsed |-> now - _start_time[u],
                              grace_period |-> _grace_period[u]]}
                       /\ UNCHANGED wpc
                  ELSE /\ wpc' = "call"
                       /\ UNCHANGED << windex, skipped >>
    /\ UNCHANGED << unitVars, configVars, osVars, clockVars, registered_items,
                    frame, restarts, failed, released, ticked, busVars,
                    cameraVars >>

\* ProcessWatchDog.watchdog: registered_process.restart()
watchdog_restart ==
    /\ wpc = "call"
    /\ restart("watchdog", registered_process, NoTimeout)
    /\ wpc' = "restart"
    /\ UNCHANGED << windex, registered_process >>

\* ProcessWatchDog.watchdog: registered_process.restart() raises, which ends
\* the job of this tick
watchdog_restart_raises ==
    /\ wpc = "call"
    /\ restart_raises("watchdog", registered_process)
    /\ wpc' = "idle"
    /\ UNCHANGED << windex, registered_process >>

(* ------------------------------- camera -------------------------------- *)
\* threading.Thread.is_alive() of a frame reader unit
reader_alive(id) == id # NoReader /\ reader[id].pos # "ended"

\* a frame reader made with register=False
_create_frame_reader_unregistered ==
    /\ reader' = Append(reader, [pos |-> "init", stopped |-> FALSE,
                                 stop_first |-> FALSE, empty_frames |-> 0,
                                 ended_at |-> NoTime])
    /\ _frame_reader' = Len(reader) + 1
    /\ UNCHANGED thread_items

\* RestartableThread(...).start(): a new unit whose worker runs read_frames,
\* registered with the thread watchdog
_create_frame_reader ==
    /\ reader' = Append(reader, [pos |-> "init", stopped |-> FALSE,
                                 stop_first |-> FALSE, empty_frames |-> 0,
                                 ended_at |-> NoTime])
    /\ _frame_reader' = Len(reader) + 1
    /\ thread_items' = Append(thread_items, Len(reader) + 1)

\* Camera.start_camera
start_camera ==
    /\ _capture_frames' = TRUE
    /\ IF _frame_reader = NoReader \/ ~reader_alive(_frame_reader)
         THEN _create_frame_reader
         ELSE UNCHANGED << reader, _frame_reader, thread_items >>

\* the application calls start_camera()
call_start_camera ==
    /\ start_camera
    /\ UNCHANGED << _thread_stuck, connected, _poll_timer, decode_error, pipe,
                    threadJobVars, cpc, trestarts, errorVars, watchdogVars,
                    busVars >>

\* Camera.start_camera as caller c runs it beside other threads, up to the
\* test of the frame reader: the flag is set and the test is evaluated
start_camera_test(c) ==
    /\ cpc[c].pc = "idle"
    /\ _capture_frames' = TRUE
    /\ cpc' = [cpc EXCEPT ![c] =
                  IF _frame_reader = NoReader \/ ~reader_alive(_frame_reader)
                    THEN [pc |-> "create", unit |-> _frame_reader,
                          since |-> NoTime]
                    ELSE NoCall]

\* Camera.start_camera of caller c after a test that passed: the new frame
\* reader is made and started
start_camera_create(c) ==
    /\ cpc[c].pc = "create"
    /\ _create_frame_reader
    /\ cpc' = [cpc EXCEPT ![c] = NoCall]

\* the application calls start_camera() while the watchdog job may run
call_start_camera_test ==
    /\ start_camera_test("app")
    /\ UNCHANGED << _frame_reader, _thread_stuck, connected, _poll_timer,
                    decode_error, pipe, reader, thread_items, threadJobVars,
                    trestarts, errorVars, watchdogVars, busVars >>

\* the application's start_camera() goes on after its test
call_start_camera_create ==
    /\ start_camera_create("app")
    /\ UNCHANGED << _capture_frames, _thread_stuck, connected, _poll_timer,
                    decode_error, pipe, threadJobVars, trestarts, errorVars,
                    watchdogVars, busVars >>

\* Camera.stop_camera up to the join: the flag, stop() of the unit (the stop
\* signal and the deregistration), and the caller waiting in join(timeout=5)
stop_camera(c) ==
    /\ _capture_frames' = FALSE
    /\ IF _frame_reader # NoReader
         THEN /\ reader' = [reader EXCEPT
                     ![_frame_reader].stopped = TRUE,
                     ![_frame_reader].stop_first =
                         \/ reader[_frame_reader].stop_first
                         \/ /\ ~reader[_frame_reader].stopped
                            /\ reader_alive(_frame_reader)]
              /\ thread_items' = unregister(thread_items, _frame_reader)
              /\ cpc' = [cpc EXCEPT ![c] = [pc |-> "join",
                                            unit |-> _frame_reader,
                                            since |-> now]]
         ELSE /\ cpc' = [cpc EXCEPT ![c] = [pc |-> "joined",
                                            unit |-> NoReader,
                                            since |-> now]]
              /\ UNCHANGED << reader, thread_items >>

\* the application calls stop_camera()
call_stop_camera ==
    /\ cpc["app"].pc = "idle"
    /\ stop_camera("app")
    /\ UNCHANGED << _frame_reader, _thread_stuck, connected, _poll_timer,
                    decode_error, pipe, threadJobVars, trestarts, errorVars,
                    watchdogVars, busVars >>

\* Camera.stop_camera from the return of join(timeout=5): the worker has
\* ended, or five seconds have passed with the worker blocked in
\* self.stream.read() or in time.sleep(5); a reader still alive loses its pipe
stop_camera_join(c) ==
    /\ cpc[c].pc \in {"join", "joined"}
    /\ cpc[c].pc = "join" =>
          \/ ~reader_alive(cpc[c].unit)
          \/ /\ now >= cpc[c].since + JoinTimeout
             /\ reader[cpc[c].unit].pos \in {"read", "sleep"}
    /\ pipe' = IF cpc[c].pc = "join" /\ reader_alive(_frame_reader)
                 THEN "closed" ELSE pipe
    /\ cpc' = [cpc EXCEPT ![c] = NoCall]
    /\ tpc' = IF c = "watchdog" THEN "restart_stuck" ELSE tpc
    /\ UNCHANGED << _frame_reader, _capture_frames, _thread_stuck, connected,
                    _poll_timer, decode_error, reader, thread_items, tcopy,
                    tunit, trestarts, errorVars, watchdogVars,
                    busVars >>

\* a poll_method without the test of the configured frame timeout
poll_method_default_only ==
    now - _poll_timer > DefaultFrameTimeout * 2

\* Camera.poll_method
poll_method ==
    IF now - _poll_timer > DefaultFrameTimeout * 2
      THEN TRUE
      ELSE IF ~connected
             THEN FALSE
             ELSE now - _poll_timer > FrameTimeout

\* Camera.read_frames up to the loop
read_frames(id) ==
    /\ reader[id].pos = "init"
    /\ decode_error' = FALSE
    /\ _poll_timer' = now
    /\ _thread_stuck' = FALSE
    /\ pipe' = "open"
    /\ reader' = [reader EXCEPT ![id].pos = "loop", ![id].empty_frames = 0]
    /\ UNCHANGED << _frame_reader, _capture_frames, connected, thread_items,
                    threadJobVars, cpc, trestarts, errorVars, watchdogVars,
                    busVars >>

\* the end of a worker; ended_at is history, the time of an end without
\* stop()
ended(id) ==
    [reader EXCEPT ![id].pos = "ended",
                   ![id].ended_at = IF reader[id].stopped THEN NoTime ELSE now]

\* while self._capture_frames: the exit of the loop, or the head of the body
\* up to time.sleep(5) or up to self.stream.read()
read_frames_loop(id) ==
    /\ reader[id].pos = "loop"
    /\ IF ~_capture_frames
         THEN /\ connected' = FALSE
              /\ pipe' = "closed"
              /\ reader' = ended(id)
              /\ UNCHANGED _poll_timer
         ELSE IF decode_error
                THEN /\ _poll_timer' = now
                     /\ connected' = FALSE
                     /\ reader' = [reader EXCEPT ![id].pos = "sleep"]
                     /\ UNCHANGED pipe
                ELSE /\ reader' = [reader EXCEPT ![id].pos = "read"]
                     /\ UNCHANGED << _poll_timer, connected, pipe >>
    /\ UNCHANGED << _frame_reader, _capture_frames, _thread_stuck,
                    decode_error, thread_items, threadJobVars, cpc, trestarts,
                    errorVars, watchdogVars, busVars >>

\* after time.sleep(5): the pipe is restarted
read_frames_restart_pipe(id) ==
    /\ reader[id].pos = "sleep"
    /\ pipe' = "open"
    /\ decode_error' = FALSE
    /\ reader' = [reader EXCEPT ![id].pos = "read", ![id].empty_frames = 0]
    /\ UNCHANGED << _frame_reader, _capture_frames, _thread_stuck, connected,
                    _poll_timer, thread_items, threadJobVars, cpc, trestarts,
                    errorVars, watchdogVars, busVars >>

\* self.stream.read() returns a frame: the rest of the body; the frame goes
\* to the mailbox of the data bus by publish_data (the frames are not
\* numbered in the history of the bus)
read_frames_frame(id) ==
    /\ reader[id].pos = "read"
    /\ pipe = "open"
    /\ connected' = TRUE
    /\ _poll_timer' = now
    /\ reader' = [reader EXCEPT ![id].pos = "loop", ![id].empty_frames = 0]
    /\ _data_queue' = pop_if_full(_data_queue, DataQueueMaxSize, current_frame)
    /\ UNCHANGED << _frame_reader, _capture_frames, _thread_stuck,
                    decode_error, pipe, thread_items, threadJobVars, cpc,
                    trestarts, watchdogVars >>
    /\ UNCHANGED << registryVars, raised, ppc, pitem, workerVars, parked,
                    downstreamVars, throttleVars, retry, histVars, passVars,
                    errorVars, apiVars >>

\* a read_frames that sets the decode-error flag at every empty read
read_frames_empty_hasty(id, exited) ==
    /\ reader[id].pos = "read"
    /\ IF _thread_stuck
         THEN /\ reader' = ended(id)
              /\ UNCHANGED decode_error
         ELSE IF exited
                THEN /\ decode_error' = TRUE
                     /\ reader' = [reader EXCEPT ![id].pos = "loop"]
                ELSE /\ decode_error' = TRUE
                     /\ reader' = [reader EXCEPT
                            ![id].pos = "loop",
                            ![id].empty_frames = reader[id].empty_frames + 1]
    /\ UNCHANGED << _frame_reader, _capture_frames, _thread_stuck, connected,
                    _poll_timer, pipe, thread_items, threadJobVars, cpc,
                    trestarts, errorVars, watchdogVars, busVars >>

\* self.stream.read() returns no frame: the rest of the body; exited says
\* that self.stream.poll() is not None
read_frames_empty(id, exited) ==
    /\ reader[id].pos = "read"
    /\ IF _thread_stuck
         THEN /\ reader' = ended(id)
              /\ UNCHANGED decode_error
         ELSE IF exited
                THEN /\ decode_error' = TRUE
                     /\ reader' = [reader EXCEPT ![id].pos = "loop"]
                ELSE /\ decode_error' =
                            ((reader[id].empty_frames + 1 >= EmptyFramesLimit)
                                \/ decode_error)
                     /\ reader' = [reader EXCEPT
                            ![id].pos = "loop",
                            ![id].empty_frames = reader[id].empty_frames + 1]
    /\ UNCHANGED << _frame_reader, _capture_frames, _thread_stuck, connected,
                    _poll_timer, pipe, thread_items, threadJobVars, cpc,
                    trestarts, errorVars, watchdogVars, busVars >>

\* the worker ends on an exception of read_frames
read_frames_raises(id) ==
    /\ reader[id].pos \in {"loop", "read", "sleep"}
    /\ reader' = ended(id)
    /\ UNCHANGED << cameraFields, thread_items, threadJobVars, cpc, trestarts,
                    errorVars, watchdogVars, busVars >>

(* --------------------------- thread watchdog --------------------------- *)
\* the job of the thread watchdog, due every TickInterval seconds on the
\* scheduler of its own watchdog, which is started with the process watchdog's
thread_watchdog_begin ==
    /\ tpc = "idle"
    /\ now >= next_tick
    /\ next_tick' = next_tick + TickInterval
    /\ ticked' = ticked + 1
    /\ tcopy' = thread_items
    /\ tpc' = "loop"
    /\ UNCHANGED << cameraFields, reader, thread_items, tunit, cpc, trestarts,
                    errorVars, unitVars, configVars, osVars, now, jobVars,
                    registered_items, frame, restarts, skipped, failed, released,
                    busVars >>

\* one examination of the job: a unit on which stop() was called is passed
\* over; a unit whose poll predicate reports stuck gets its poll action; a
\* unit whose worker is alive is passed over; any other is restarted
thread_watchdog ==
    /\ tpc = "loop"
    /\ IF tcopy = <<>>
         THEN /\ tpc' = "idle"
              /\ UNCHANGED << tcopy, tunit >>
         ELSE /\ tunit' = Head(tcopy)
              /\ tcopy' = Tail(tcopy)
              /\ tpc' = IF reader[Head(tcopy)].stopped
                          THEN "loop"
                          ELSE IF poll_method
                                 THEN "poll"
                                 ELSE IF reader_alive(Head(tcopy))
                                        THEN "loop"
                                        ELSE "restart"
    /\ UNCHANGED << cameraFields, reader, thread_items, cpc,
                    trestarts, errorVars, watchdogVars, busVars >>

\* Camera.poll_target, called by the job, up to the join of stop_camera
poll_target ==
    /\ tpc = "poll"
    /\ _thread_stuck' = TRUE
    /\ stop_camera("watchdog")
    /\ tpc' = "stop"
    /\ UNCHANGED << _frame_reader, connected, _poll_timer, decode_error, pipe,
                    tcopy, tunit, trestarts, errorVars, watchdogVars,
                    busVars >>

\* restart_method of the unit, called by the job: Camera.start_camera
thread_watchdog_restart ==
    /\ tpc \in {"restart", "restart_stuck"}
    /\ start_camera
    /\ trestarts' = Append(trestarts,
            [unit |-> tunit, tick |-> ticked, at |-> now,
             stopped |-> reader[tunit].stopped,
             stop_first |-> reader[tunit].stop_first,
             stuck |-> (tpc = "restart_stuck"),
             alive |-> reader_alive(tunit),
             created |-> ~reader_alive(_frame_reader)])
    /\ tpc' = "loop"
    /\ UNCHANGED << _thread_stuck, connected, _poll_timer, decode_error, pipe,
                    tcopy, tunit, cpc, errorVars, watchdogVars,
                    busVars >>

(* ------------------------ DataStream.__init__ -------------------------- *)
\* what belongs to one data_stream thread and to the DataStream object whose
\* consume_data it runs: its position and locals, and self._max_threads
Consumer ==
    [pc |-> pc, data_item |-> data_item, callbacks |-> callbacks,
     wcopy |-> wcopy, thread |-> thread, caller |-> caller,
     copied |-> copied, wcopied |-> wcopied, _max_threads |-> _max_threads,
     retry |-> retry]

\* DataStream(vis) once more: a new object with its own _max_threads, and a
\* new data_stream thread started on its consume_data; the registries and
\* the mailbox are attributes of the class and stay the ones there are
__init__ ==
    /\ parked' = Append(parked,
                        [pc |-> "get", data_item |-> NoItem,
                         callbacks |-> <<>>, wcopy |-> <<>>,
                         thread |-> NoThread, caller |-> "none",
                         copied |-> <<>>, wcopied |-> <<>>,
                         _max_threads |-> _get_max_threads,
                         retry |-> "none"])
    /\ UNCHANGED << registryVars, _data_queue, raised, ppc, pitem, workerVars,
                    downstreamVars, throttleVars, retry, histVars, passVars,
                    errorVars, watchdogVars, cameraVars,
                    apiVars >>

\* the interpreter lets another data_stream thread run: the steps of the
\* dispatch worker are then the steps of that thread
consumer_switch(i) ==
    /\ i \in 1..Len(parked)
    /\ parked' = [parked EXCEPT ![i] = Consumer]
    /\ pc' = parked[i].pc
    /\ data_item' = parked[i].data_item
    /\ callbacks' = parked[i].callbacks
    /\ wcopy' = parked[i].wcopy
    /\ thread' = parked[i].thread
    /\ caller' = parked[i].caller
    /\ copied' = parked[i].copied
    /\ wcopied' = parked[i].wcopied
    /\ _max_threads' = parked[i]._max_threads
    /\ retry' = parked[i].retry
    /\ UNCHANGED << registryVars, _data_queue, raised, ppc, pitem,
                    downstreamVars, start_fails, slept, histVars, npass,
                    begun, errorVars, watchdogVars, cameraVars,
                    apiVars >>

\* the data_stream threads that are alive
data_consumers ==
    (IF pc # "dead" THEN 1 ELSE 0)
    + Cardinality({i \in 1..Len(parked) : parked[i].pc # "dead"})

(* --------------------------- specifications --------------------------- *)
\* the steps of the dispatch worker and of what runs downstream of it
Dispatch ==
    \/ consume_data
    \/ static_subscriptions
    \/ run_callbacks
    \/ throttle_sleep
    \/ thread_start
    \/ thread_start_fails
    \/ wildcard_subscriptions
    \/ wildcard_match
    \/ \E t \in threads : thread_run(t)
    \/ ioloop_run

\* the registry the code picks for a key
RegistryOf(data_topic) ==
    IF HasStar(data_topic) THEN _wildcard_subscribers ELSE _subscribers

\* Spec: one producer, every topic, pattern and target, one payload
Next ==
    \/ /\ Len(published) < MaxMsgs
       /\ \E t \in Topics : publish_data("p1", t, "x")
    \/ publish_return("p1")
    \/ /\ next_uuid <= MaxSubs
       /\ \E t \in Topics \cup Patterns, g \in Targets : subscribe_data(t, g)
    \/ Dispatch

Spec == Init /\ [][Next]_vars

\* SpecPayload: one topic, every payload and target
PayloadTopic == <<"a", "/", "b">>

NextPayload ==
    \/ /\ Len(published) < MaxMsgs
       /\ \E d \in Payloads : publish_data("p1", PayloadTopic, d)
    \/ publish_return("p1")
    \/ /\ next_uuid <= MaxSubs
       /\ \E g \in Targets : subscribe_data(PayloadTopic, g)
    \/ Dispatch

SpecPayload == Init /\ [][NextPayload]_vars

\* the dispatch worker when no subscriber is a callable without ioloop
DispatchNoThread ==
    \/ consume_data
    \/ static_subscriptions
    \/ run_callbacks
    \/ wildcard_subscriptions
    \/ wildcard_match

\* SpecRegistry: subscribe and unsubscribe of registered ids racing the
\* dispatch worker
RegistryKeys == { <<"a", "/", "b">>, <<"a", "/", "*">> }

NextRegistry ==
    \/ /\ Len(published) < MaxRegistryMsgs
       /\ publish_data("p1", PayloadTopic, "x")
    \/ publish_return("p1")
    \/ /\ next_uuid <= MaxSubs
       /\ \E t \in RegistryKeys : subscribe_data(t, Relay)
    \/ \E t \in RegistryKeys, i \in 1..MaxSubs :
          /\ ~PopRaises(RegistryOf(t), t, i)
          /\ unsubscribe_data(t, i)
    \/ DispatchNoThread

SpecRegistry == Init /\ [][NextRegistry]_vars

\* SpecUnsubscribe: subscribe and unsubscribe with every argument
NextUnsubscribe ==
    \/ /\ next_uuid <= MaxSubs
       /\ \E t \in Topics \cup Patterns, g \in Targets : subscribe_data(t, g)
    \/ \E t \in Topics \cup Patterns, i \in 1..MaxSubs : unsubscribe_data(t, i)

SpecUnsubscribe == Init /\ [][NextUnsubscribe]_vars

\* SpecFanout: one message on a topic with exact and wildcard subscribers
FanoutTopic == <<"a", "/", "b", "/", "c">>
FanoutKeys == { FanoutTopic, <<"a", "/", "*", "/", "c">>,
                <<"a", "/", "*", "/", "d">>, <<"*", "/", "c">> }

NextFanout ==
    \/ /\ Len(published) < MaxFanoutMsgs
       /\ publish_data("p1", FanoutTopic, "x")
    \/ publish_return("p1")
    \/ /\ next_uuid <= MaxFanoutSubs
       /\ \E t \in FanoutKeys : subscribe_data(t, Relay)
    \/ DispatchNoThread

SpecFanout == Init /\ [][NextFanout]_vars

\* SpecMailbox: several producers racing each other and the dispatch worker
NextMailbox ==
    \/ /\ Len(published) < MaxMailboxMsgs
       /\ \E p \in Producers : publish_data(p, PayloadTopic, "x")
    \/ \E p \in Producers : publish_return(p)
    \/ DispatchNoThread

SpecMailbox == Init /\ [][NextMailbox]_vars

\* the dispatch worker when every subscriber is a callable without ioloop
DispatchDirect ==
    \/ consume_data
    \/ static_subscriptions
    \/ run_callbacks
    \/ throttle_sleep
    \/ thread_start
    \/ thread_start_fails
    \/ thread_start_raises
    \/ wildcard_subscriptions
    \/ wildcard_match
    \/ \E t \in threads : thread_run(t)

\* SpecSpawn: direct deliveries with every outcome of thread.start()
NextSpawn ==
    \/ /\ Len(published) < MaxMsgs
       /\ publish_data("p1", PayloadTopic, "x")
    \/ publish_return("p1")
    \/ /\ next_uuid <= MaxSubs
       /\ subscribe_data(PayloadTopic, Direct)
    \/ DispatchDirect

SpecSpawn == Init /\ [][NextSpawn]_vars

\* SpecErrors: scheduler and relay deliveries when add_callback can raise
NextErrors ==
    \/ /\ Len(published) < MaxMsgs
       /\ publish_data("p1", PayloadTopic, "x")
    \/ publish_return("p1")
    \/ /\ next_uuid <= MaxSubs
       /\ \E g \in {SchedulerCallback, Relay} : subscribe_data(PayloadTopic, g)
    \/ DispatchNoThread
    \/ ioloop_run
    \/ /\ Cardinality(errored) < MaxRaise
       /\ add_callback_raises
    \/ data_consumer_restart

SpecErrors == Init /\ [][NextErrors]_vars

\* SpecInvalid: subscriptions whose target run_callbacks rejects, among
\* valid ones, under an exact key and a pattern
InvalidTargets == {TornadoNoLoop, NotCallable, NotCallableLoop}

NextInvalid ==
    \/ /\ Len(published) < MaxMsgs
       /\ publish_data("p1", PayloadTopic, "x")
    \/ publish_return("p1")
    \/ /\ next_uuid <= MaxSubs
       /\ \E t \in RegistryKeys, g \in InvalidTargets \cup {Relay, SchedulerRelay} :
             subscribe_data(t, g)
    \/ DispatchNoThread
    \/ ioloop_run

SpecInvalid == Init /\ [][NextInvalid]_vars

\* SpecWatchdog: units constructed, started and terminated or killed by the
\* application, child processes that end at any moment, and the watchdog job
NextWatchdog ==
    \/ \E u \in Units, g \in GracePeriods : RestartableProcess(u, g, TRUE)
    \/ /\ next_pid <= MaxPids
       /\ \E u \in Units : call_start(u)
    \/ \E pid \in DOMAIN proc : process_exits(pid)
    \/ \E u \in Units : _started[u] /\ terminate(u)
    \/ \E u \in Units : _started[u] /\ kill(u)
    \/ /\ now + TimeStep <= Epoch + MaxTime
       /\ time_passes
    \/ watchdog_begin
    \/ watchdog
    \/ watchdog_restart
    \/ restart_join("watchdog")
    \/ restart_kill("watchdog")
    \/ /\ next_pid <= MaxPids
       /\ restart_start("watchdog")

SpecWatchdog == Init /\ [][NextWatchdog]_vars

\* SpecRestart: the application calls restart(timeout) with every timeout,
\* on units whose process is alive or has ended, up to the first watchdog job
NextRestart ==
    \/ \E u \in Units : RestartableProcess(u, DefaultGracePeriod, TRUE)
    \/ /\ next_pid <= MaxPids
       /\ \E u \in Units : call_start(u)
    \/ \E pid \in DOMAIN proc : process_exits(pid)
    \/ /\ Len(restarts) < MaxRestarts
       /\ \E u \in Units, t \in Timeouts : call_restart(u, t)
    \/ restart_join("app")
    \/ restart_kill("app")
    \/ /\ next_pid <= MaxPids
       /\ restart_start("app")
    \/ /\ now + TimeStep <= Epoch + MaxTime
       /\ time_passes

SpecRestart == Init /\ [][NextRestart]_vars

\* SpecLaunch: the units of SpecWatchdog, whose processes the operating
\* system can refuse to launch when the watchdog restarts them
NextLaunch ==
    \/ \E u \in Units, g \in GracePeriods : RestartableProcess(u, g, TRUE)
    \/ /\ next_pid <= MaxPids
       /\ \E u \in Units : call_start(u)
    \/ \E pid \in DOMAIN proc : process_exits(pid)
    \/ /\ now + TimeStep <= Epoch + MaxLaunchTime
       /\ time_passes
    \/ watchdog_begin
    \/ watchdog
    \/ watchdog_restart
    \/ watchdog_restart_raises
    \/ restart_join("watchdog")
    \/ restart_kill("watchdog")
    \/ /\ next_pid <= MaxPids
       /\ restart_start("watchdog")
    \/ /\ next_pid <= MaxPids
       /\ Len(failed) < MaxLaunchFail
       /\ restart_start_raises("watchdog")

SpecLaunch == Init /\ [][NextLaunch]_vars

\* SpecRelease: the units of SpecWatchdog, on which the application calls
\* terminate() or kill() once, at any moment after start(), the moments at
\* which the watchdog is restarting them included
NextRelease ==
    \/ \E u \in Units, g \in GracePeriods : RestartableProcess(u, g, TRUE)
    \/ /\ next_pid <= MaxPids
       /\ \E u \in Units : call_start(u)
    \/ \E pid \in DOMAIN proc : process_exits(pid)
    \/ \E u \in Units :
          /\ _process[u] # NoProcess
          /\ released[u] = NoProcess
          /\ terminate(u)
    \/ \E u \in Units :
          /\ _process[u] # NoProcess
          /\ released[u] = NoProcess
          /\ kill(u)
    \/ /\ now + TimeStep <= Epoch + MaxTime
       /\ time_passes
    \/ watchdog_begin
    \/ watchdog
    \/ watchdog_restart
    \/ restart_join("watchdog")
    \/ restart_kill("watchdog")
    \/ /\ next_pid <= MaxPids
       /\ restart_start("watchdog")

SpecRelease == Init /\ [][NextRelease]_vars

\* SpecHandle: the application calls restart(timeout) on a unit that the
\* watchdog supervises and restarts at its first tick
NextHandle ==
    \/ \E u \in {"u1"} : RestartableProcess(u, TickInterval, TRUE)
    \/ /\ next_pid <= MaxPids
       /\ \E u \in Units : call_start(u)
    \/ \E pid \in DOMAIN proc : process_exits(pid)
    \/ /\ Len(restarts) < MaxRestarts
       /\ \E u \in Units, timeout \in Timeouts : call_restart(u, timeout)
    \/ restart_join("app")
    \/ restart_kill("app")
    \/ /\ next_pid <= MaxPids
       /\ restart_start("app")
    \/ /\ now + TimeStep <= Epoch + MaxHandleTime
       /\ time_passes
    \/ watchdog_begin
    \/ watchdog
    \/ /\ Len(restarts) < MaxRestarts
       /\ watchdog_restart
    \/ restart_join("watchdog")
    \/ restart_kill("watchdog")
    \/ /\ next_pid <= MaxPids
       /\ restart_start("watchdog")

SpecHandle == Init /\ [][NextHandle]_vars

\* SpecCamera: one camera; the application starts and stops it, its frame
\* readers read, starve, fail and end, and the thread watchdog examines the
\* registered units with every tick of the scheduler
NextCamera ==
    \/ /\ Len(reader) < MaxReaders
       /\ call_start_camera
    \/ call_stop_camera
    \/ stop_camera_join("app")
    \/ stop_camera_join("watchdog")
    \/ \E id \in DOMAIN reader : read_frames(id)
    \/ \E id \in DOMAIN reader : read_frames_loop(id)
    \/ \E id \in DOMAIN reader : read_frames_restart_pipe(id)
    \/ /\ Len(_data_queue) < MaxFrames
       /\ \E id \in DOMAIN reader : read_frames_frame(id)
    \/ \E id \in DOMAIN reader, exited \in BOOLEAN :
          read_frames_empty(id, exited)
    \/ \E id \in DOMAIN reader : read_frames_raises(id)
    \/ /\ now + TimeStep <= Epoch + MaxTime
       /\ tpc # "idle" => cpc["watchdog"].pc = "join"
       /\ \A c \in Callers :
             cpc[c].pc = "join" => now < cpc[c].since + JoinTimeout
       /\ time_passes
    \/ thread_watchdog_begin
    \/ thread_watchdog
    \/ poll_target
    \/ /\ Len(reader) < MaxReaders \/ reader_alive(_frame_reader)
       /\ thread_watchdog_restart

SpecCamera == Init /\ [][NextCamera]_vars

\* SpecUnattended: the camera is started once and then left alone: after the
\* first start_camera() only the frame readers, the clock and the thread
\* watchdog act
NextUnattended ==
    \/ /\ _frame_reader = NoReader
       /\ call_start_camera
    \/ stop_camera_join("watchdog")
    \/ \E id \in DOMAIN reader : read_frames(id)
    \/ \E id \in DOMAIN reader : read_frames_loop(id)
    \/ \E id \in DOMAIN reader : read_frames_restart_pipe(id)
    \/ \E id \in DOMAIN reader : read_frames_frame(id)
    \/ \E id \in DOMAIN reader, exited \in BOOLEAN :
          read_frames_empty(id, exited)
    \/ \E id \in DOMAIN reader : read_frames_raises(id)
    \/ /\ now + TimeStep <= Epoch + MaxTime
       /\ tpc # "idle" => cpc["watchdog"].pc = "join"
       /\ cpc["watchdog"].pc = "join"
             => now < cpc["watchdog"].since + JoinTimeout
       /\ time_passes
    \/ thread_watchdog_begin
    \/ thread_watchdog
    \/ poll_target
    \/ /\ Len(reader) < MaxReaders \/ reader_alive(_frame_reader)
       /\ thread_watchdog_restart

SpecUnattended == Init /\ [][NextUnattended]_vars

(* ---------------------- vocabulary of the properties ------------------- *)
Mids == 1..Len(published)
Topic(m) == published[m].data_topic
Data(m) == published[m].data

\* number of hand-offs of message m to subscription s
Count(m, s) ==
    Cardinality({i \in 1..Len(handed) : handed[i].mid = m /\ handed[i].id = s})

\* the ids message m was handed to
HandedTo(m) == {handed[i].id : i \in {j \in 1..Len(handed) : handed[j].mid = m}}

\* the dispatch worker dequeued message m and finished both of its passes
Dispatched(m) ==
    /\ m \notin dropped
    /\ \/ data_item.mid > m
       \/ data_item.mid = m /\ pc = "get"

\* subscriptions added under key k before message m was published and not
\* removed since
RegisteredBefore(m, k) ==
    {s \in DOMAIN subscribed :
        /\ subscribed[s].data_topic = k
        /\ subscribed[s].at < m
        /\ s \notin DOMAIN unsubscribed}

\* the "/"-separated segments of a topic or pattern
RECURSIVE Split(_)
Split(t) ==
    IF \A i \in 1..Len(t) : t[i] # "/" THEN <<t>>
    ELSE LET k == CHOOSE i \in 1..Len(t) :
                    t[i] = "/" /\ \A j \in 1..(i - 1) : t[j] # "/"
         IN <<SubSeq(t, 1, k - 1)>> \o Split(SubSeq(t, k + 1, Len(t)))

\* segment-for-segment match of the specification
SegMatch(pat, topic) ==
    LET P == Split(pat)
        T == Split(topic)
    IN /\ Len(P) = Len(T)
       /\ \A i \in 1..Len(P) : P[i] = <<"*">> \/ P[i] = T[i]

\* the pattern has a literal segment that is not the topic's segment there
DiffersInLiteral(pat, topic) ==
    LET P == Split(pat)
        T == Split(topic)
    IN \E i \in 1..Len(P) :
          /\ ~HasStar(P[i])
          /\ (i > Len(T) \/ P[i] # T[i])

C2_Original ==
    \A i \in 1..Len(handed) :
        LET d == Data(handed[i].mid)
        IN IF d = None THEN handed[i].args \in {<<>>, <<None>>}
           ELSE handed[i].args = <<d>>

(* ------------------------------- C3 ------------------------------------ *)
\* C3 as stated: a wildcard subscription is handed a message iff pattern and
\* topic have the same number of segments and every pattern segment is "*"
\* or equal to the topic's segment at that position.
C3_Original ==
    /\ \A i \in 1..Len(handed) :
          HasStar(handed[i].key) =>
              SegMatch(handed[i].key, Topic(handed[i].mid))
    /\ \A m \in Mids : \A s \in DOMAIN subscribed :
          ( /\ Dispatched(m)
            /\ HasStar(subscribed[s].data_topic)
            /\ s \in RegisteredBefore(m, subscribed[s].data_topic)
            /\ SegMatch(subscribed[s].data_topic, Topic(m)) )
          => Count(m, s) >= 1

(* ------------------------------- C4 ------------------------------------ *)
\* C4 as stated: when a message is published on a topic that has an exact
\* subscriber and a matching wildcard subscriber, each of the two is handed
\* the message exactly once, and a wildcard subscription whose pattern
\* differs from the topic in a literal segment is handed nothing.
C4_Original ==
    \A m \in Mids :
        \A e \in RegisteredBefore(m, Topic(m)) :
        \A w \in DOMAIN subscribed :
            ( /\ Dispatched(m)
              /\ HasStar(subscribed[w].data_topic)
              /\ w \in RegisteredBefore(m, subscribed[w].data_topic)
              /\ SegMatch(subscribed[w].data_topic, Topic(m)) )
            => /\ Count(m, e) = 1
               /\ Count(m, w) = 1
               /\ \A x \in DOMAIN subscribed :
                     ( /\ HasStar(subscribed[x].data_topic)
                       /\ DiffersInLiteral(subscribed[x].data_topic, Topic(m)) )
                     => Count(m, x) = 0

(* ------------------------------- C5 ------------------------------------ *)
\* the mids held by the mailbox
QueueMids == {_data_queue[i].mid : i \in 1..Len(_data_queue)}

\* nothing was dequeued so far
NotDrained == pc = "get" /\ data_item = NoItem

\* C5: the mailbox never holds more than its capacity N, and after N+k
\* publishes with no draining it holds the N most recently published
\* messages in publish order, the k oldest having been dropped.
C5_DropOldest ==
    /\ Len(_data_queue) <= DataQueueMaxSize
    /\ NotDrained =>
          LET n == Len(published)
              k == IF n > DataQueueMaxSize THEN n - DataQueueMaxSize ELSE 0
          IN /\ _data_queue = SubSeq(published, k + 1, n)
             /\ dropped = 1..k

C5_Witness ==
    /\ NotDrained
    /\ Len(published) >= DataQueueMaxSize + 2
    /\ Len(_data_queue) = DataQueueMaxSize

(* ------------------------------- C6 ------------------------------------ *)
\* C6 as stated: the published message is in the mailbox when the publish
\* call returns.
C6_Original ==
    \A p \in Producers :
        ppc[p] = "return" => \E i \in 1..Len(_data_queue) : _data_queue[i] = pitem[p]

\* C6: publish never blocks (the call can take its enqueue step and its
\* return step whatever the mailbox holds and whatever the other producers
\* and the dispatch worker do); the enqueue step puts the message last in the
\* mailbox and removes nothing, or only the oldest message when the mailbox
\* is full; nothing but the oldest message ever leaves the mailbox. The
\* message may have left the mailbox again when the call returns.
C6_NonBlocking ==
    /\ [](\A p \in Producers :
            /\ ppc[p] = "idle" => ENABLED publish_data(p, PayloadTopic, "x")
            /\ ppc[p] = "return" => ENABLED publish_return(p))
    /\ [][ /\ \A p \in Producers :
                (ppc[p] = "idle" /\ ppc'[p] = "return") =>
                    _data_queue' =
                        Append(IF Len(_data_queue) = DataQueueMaxSize
                               THEN Tail(_data_queue) ELSE _data_queue,
                               pitem'[p])
           /\ \A m \in QueueMids \ QueueMids' : m = Head(_data_queue).mid
         ]_vars

C6_Witness ==
    \E p \in Producers : ppc[p] = "return" /\ pitem[p].mid \in dropped

(* ------------------------------- C7 ------------------------------------ *)
\* C7: once unsubscribe(topic, id) has removed a subscriber, no message
\* published afterwards is handed to it; a hand-off made after the removal
\* is of the one message whose pass had copied the subscriber dict before
\* the removal, and that message reaches it at most once.
C7_Unsubscribed ==
    \A u \in DOMAIN unsubscribed : \A i \in 1..Len(handed) :
        handed[i].id = u =>
            /\ handed[i].mid <= unsubscribed[u].at
            /\ handed[i].late => handed[i].mid = unsubscribed[u].inflight
            /\ Count(handed[i].mid, u) <= 1

C7_Witness ==
    \E u \in DOMAIN unsubscribed :
        /\ \E i \in 1..Len(handed) : handed[i].id = u /\ handed[i].late
        /\ \E m \in Mids :
              /\ m > unsubscribed[u].at
              /\ Dispatched(m)
              /\ fnmatch(Topic(m), subscribed[u].data_topic)

(* ------------------------------- C8 ------------------------------------ *)
\* C8 as stated: unsubscribe(topic, id) for an id that is absent (removed
\* before, never registered, or under a topic with no registry entry) raises
\* no error. In the model only such a call raises.
C8_Original == raised = "none"

(* ------------------------------- C9 ------------------------------------ *)
\* s is sorted by mid, for the entries that satisfy Keep
SortedByMid(s, Keep(_)) ==
    \A i, j \in 1..Len(s) :
        (i < j /\ Keep(s[i]) /\ Keep(s[j]) /\ s[i].id = s[j].id)
            => s[i].mid < s[j].mid

RelayInOrder ==
    \A q \in DOMAIN queues : \A i, j \in 1..Len(queues[q]) :
        i < j => queues[q][i].mid < queues[q][j].mid

\* C9 as stated: in every delivery mode a subscriber's target gets m1 before
\* m2 when m1 was published before m2.
C9_Original ==
    /\ SortedByMid(calls, LAMBDA c : TRUE)
    /\ RelayInOrder

\* C9: the dispatch worker hands m1 to a subscription before it hands it m2
\* (it starts the delivery thread, enqueues on the scheduler or pushes on the
\* relay mailbox in publish order); a scheduler-callback target is invoked,
\* and a relay mailbox filled, in that order. In direct mode the two delivery
\* threads run concurrently and the target can be invoked in either order.
C9_HandOffOrder ==
    /\ SortedByMid(handed, LAMBDA h : TRUE)
    /\ SortedByMid(calls, LAMBDA c : c.mode = "scheduler")
    /\ RelayInOrder

C9_Witness ==
    /\ \E i, j \in 1..Len(calls) :
          /\ i < j
          /\ calls[i].id = calls[j].id
          /\ calls[i].mode = "scheduler"
          /\ calls[i].mid # calls[j].mid
    /\ \E i, j \in 1..Len(handed) :
          /\ i < j
          /\ handed[i].id = handed[j].id
          /\ handed[i].mode = "direct"

(* ------------------------------- C10 ----------------------------------- *)
\* C10 as stated: the set of subscribers that get a message is fixed when
\* its dispatch begins (when run_callbacks takes its first copy).
C10_Original ==
    /\ \A i \in 1..Len(handed) : handed[i].id \in begun[handed[i].mid]
    /\ \A m \in Mids : Dispatched(m) => HandedTo(m) = begun[m]

\* the ids handed in the current pass, in hand-off order
HandedInPass ==
    Ids(SelectSeq(handed, LAMBDA h : h.pass = npass /\ h.mid = data_item.mid))

\* C10: the subscribers one run_callbacks pass delivers to are fixed when the
\* pass copies its subscriber dict (the exact pass, and the pass of each
\* matching wildcard pattern, each at its own beginning), and the patterns a
\* message is matched against are fixed when the wildcard registry is
\* copied: a concurrent subscribe or unsubscribe changes neither, and the
\* iteration runs over the copy to its end. A wildcard subscription added or
\* removed before its pattern's pass begins does change who gets the
\* in-flight message.
C10_PassFixed ==
    /\ pc \in {"run", "spawn"} =>
          Ids(copied) = HandedInPass \o Ids(callbacks)
    /\ pc \in {"match", "run", "spawn"} =>
          wcopy = SubSeq(wcopied, Len(wcopied) - Len(wcopy) + 1, Len(wcopied))

\* the registry entry the current pass copied, as it is now
LiveCallbacks ==
    IF caller = "static_subscriptions"
    THEN Get(_subscribers, data_item.data_topic)
    ELSE Get(_wildcard_subscribers, wcopied[Len(wcopied) - Len(wcopy)])

C10_Witness ==
    /\ pc = "run"
    /\ callbacks # <<>>
    /\ HandedInPass # <<>>
    /\ LiveCallbacks # copied
    /\ \E m \in DOMAIN begun : Dispatched(m) /\ HandedTo(m) # begun[m]

(* ------------------------------- C11 ----------------------------------- *)
\* the entries of the copy the current pass has gone past
PassedInPass == SubSeq(copied, 1, Len(copied) - Len(callbacks))

\* C11 as stated: a direct delivery is never dropped: whatever the failure of
\* thread.start(), the dispatch worker goes on to the next subscriber only
\* when the delivery thread of the present one has been started, so every
\* direct subscriber the current pass has gone past was handed the message.
C11_Original ==
    pc \in {"run", "spawn"} =>
        \A i \in 1..Len(PassedInPass) :
            (PassedInPass[i].callback = "callable"
                /\ PassedInPass[i].ioloop = None)
            => \E j \in 1..Len(handed) :
                  /\ handed[j].id = PassedInPass[i].id
                  /\ handed[j].mid = data_item.mid
                  /\ handed[j].pass = npass

(* ------------------------------- C12 ----------------------------------- *)
\* the dispatch of message m began and the worker is no longer on it
Left(m) == m \in DOMAIN begun /\ (data_item.mid # m \/ pc = "get")

\* C12 as stated: an error raised while handing a message to one subscriber
\* is confined to that subscriber: once the worker has left a message, every
\* subscriber that matched it when its dispatch began, other than the ones
\* whose own hand-off raised, was handed the message.
C12_Original ==
    \A m \in Mids : Left(m) =>
        \A s \in begun[m] :
            [id |-> s, mid |-> m] \notin errored => Count(m, s) >= 1

(* ------------------------------- C13 ----------------------------------- *)
\* the subscriptions of both registries
RECURSIVE Subscribers(_)
Subscribers(reg) ==
    IF reg = <<>> THEN {}
    ELSE SeqToSet(Head(reg).callbacks) \cup Subscribers(Tail(reg))

Subscriber(s) ==
    CHOOSE c \in Subscribers(_subscribers) \cup Subscribers(_wildcard_subscribers) :
        c.id = s

\* not callable, not a queue, or a tornado queue with no ioloop
Unsupported(c) ==
    /\ c.callback # "callable"
    /\ c.callback # "Queue"
    /\ ~(c.callback = "tornado_queue" /\ c.ioloop # None)

\* number of errors logged for message m and subscription s
LogCount(m, s) ==
    Cardinality({i \in 1..Len(logged) : logged[i].mid = m /\ logged[i].id = s})

\* C13: a subscription with an unsupported target (not callable, not a
\* queue, or a tornado queue registered with no ioloop) has its delivery
\* skipped with one error logged, and nothing else is affected: when the
\* dispatch of a message is finished every subscriber that matched it was
\* either handed it once (supported target, nothing logged) or skipped with
\* one error logged (unsupported target), and the step that logs the error
\* leaves the worker in its loop, at the next subscriber of the same pass.
C13_SkippedAlone ==
    /\ [](\A m \in Mids : Dispatched(m) =>
            \A s \in begun[m] :
                IF Unsupported(Subscriber(s))
                THEN Count(m, s) = 0 /\ LogCount(m, s) = 1
                ELSE Count(m, s) = 1 /\ LogCount(m, s) = 0)
    /\ [][logged' # logged =>
             /\ pc' = "run"
             /\ callbacks' = Tail(callbacks)
             /\ data_item' = data_item
             /\ handed' = handed]_vars

\* an unsupported subscriber was skipped, a subscriber after it in the same
\* pass was handed the message, and a later message was dispatched as well
C13_Witness ==
    \E i \in 1..Len(logged) : \E j \in 1..Len(handed) :
        /\ handed[j].mid = logged[i].mid
        /\ handed[j].pass = logged[i].pass
        /\ handed[j].id > logged[i].id
        /\ \E m \in Mids : m > logged[i].mid /\ Dispatched(m)
                             /\ LogCount(m, logged[i].id) = 1

(* ------------------------------- C14 ----------------------------------- *)
\* a step of the watchdog job, its restart() call included
JobStep ==
    \/ jobVars' # jobVars
    \/ frame'["watchdog"] # frame["watchdog"]

\* C14: the process watchdog never restarts a unit whose process is alive:
\* the job calls restart() only on a unit it has seen not alive and that is
\* not alive at the call, and no step of the job changes the process handle,
\* the start time or the started flag of a unit whose process is alive.
C14_AliveUntouched ==
    /\ [](/\ wpc = "call" => ~is_alive(registered_process)
          /\ \A i \in 1..Len(restarts) :
                restarts[i].caller = "watchdog" => ~restarts[i].alive)
    /\ [][JobStep =>
            \A u \in Units : is_alive(u) =>
                /\ _process'[u] = _process[u]
                /\ _start_time'[u] = _start_time[u]
                /\ _started'[u] = _started[u]]_vars

\* a job has restarted one unit and is over, and another unit, started when
\* the watchdog was, is alive with the process and start time it had
C14_Witness ==
    /\ wpc = "idle"
    /\ \E i \in 1..Len(restarts) : \E v \in Units :
          /\ restarts[i].caller = "watchdog"
          /\ restarts[i].unit # v
          /\ _process[restarts[i].unit] # NoProcess
          /\ is_alive(v) /\ _started[v]
          /\ _start_time[v] = Epoch
          /\ restarts[i].tick >= 1

(* ------------------------------- C15 ----------------------------------- *)
\* C15: whenever the watchdog job calls restart() on a unit, the time since
\* the unit's most recent start is at least the unit's grace period.
C15_GraceElapsed ==
    \A i \in 1..Len(restarts) :
        restarts[i].caller = "watchdog" =>
            restarts[i].elapsed >= restarts[i].grace_period

\* a unit found dead within its grace period was left alone by one job and
\* restarted by a later one
C15_Witness ==
    \E s \in skipped : \E i \in 1..Len(restarts) :
        /\ restarts[i].caller = "watchdog"
        /\ restarts[i].unit = s.unit
        /\ restarts[i].tick > s.tick
        /\ s.elapsed > 0

(* ------------------------------- C16 ----------------------------------- *)
\* the unit the watchdog job examines in its next step
Examined == registered_items[windex]

Restarted(id) ==
    \E k \in 1..Len(trestarts) :
        /\ trestarts[k].unit = id
        /\ trestarts[k].at >= reader[id].ended_at

\* a registered unit whose worker has ended, stop() not having been called,
\* and that no job has restarted yet
Crashed(id) ==
    /\ reader[id].pos = "ended"
    /\ ~reader[id].stopped
    /\ ~Restarted(id)

\* the running job has unit id before it: as its loop variable, or among the
\* units it has still to examine
InJob(id) ==
    /\ tpc # "idle"
    /\ \/ tunit = id
       \/ \E i \in 1..Len(tcopy) : tcopy[i] = id

\* a unit whose worker ended without stop() is restarted within one tick
\* interval of the end
RestartedWithinTick ==
    \A id \in DOMAIN reader :
        Crashed(id) => now - reader[id].ended_at <= TickInterval

\* a unit whose worker ended without stop() is restarted by a job that
\* begins within one tick interval of the end
RestartedByNextJob ==
    \A id \in DOMAIN reader :
        (Crashed(id) /\ ~InJob(id))
            => now - reader[id].ended_at <= TickInterval

\* C17 as stated: a thread-backed unit whose worker ends without stop()
\* having been called is restarted within one watchdog tick interval, and a
\* unit on which stop() was called before its worker ended is never
\* restarted by the watchdog.
C17_Original ==
    /\ RestartedWithinTick
    /\ \A k \in 1..Len(trestarts) : ~trestarts[k].stop_first

\* C17: a thread-backed unit whose worker ends without stop() having been
\* called is restarted by the first watchdog job that begins after the end,
\* which begins within one watchdog tick interval, and a unit on which
\* stop() was called before its worker ended is restarted by the watchdog
\* only in the job that found it stuck and ran its poll action, which called
\* that stop(); no job restarts a unit it finds stopped.
C17_RestartUnlessStopped ==
    /\ []RestartedByNextJob
    /\ [](\A k \in 1..Len(trestarts) :
            trestarts[k].stop_first => trestarts[k].stuck)
    /\ [][ (tpc = "loop" /\ tcopy # <<>> /\ reader[Head(tcopy)].stopped)
              => tpc' = "loop" ]_vars

\* a job has restarted a unit whose worker had ended without stop(), and the
\* application has stopped another unit whose worker was alive
C17_Witness ==
    /\ \E k \in 1..Len(trestarts) :
          /\ ~trestarts[k].stopped
          /\ ~trestarts[k].alive
          /\ ~trestarts[k].stuck
          /\ trestarts[k].created
    /\ \E id \in DOMAIN reader :
          /\ reader[id].stop_first
          /\ reader[id].pos = "ended"
          /\ ticked >= 2
          /\ \A k \in 1..Len(trestarts) : trestarts[k].unit # id

(* ------------------------------- C18 ----------------------------------- *)
\* a job has found the frame reader stuck, run the poll action and called the
\* restart strategy, and no job is running
StuckHandled ==
    /\ tpc = "idle"
    /\ \E k \in 1..Len(trestarts) : trestarts[k].stuck

\* a frame reader is running with capture enabled
Capturing ==
    /\ _capture_frames
    /\ \E id \in DOMAIN reader : reader_alive(id)

\* C18 as stated: when the poll predicate of the camera's frame-reader unit
\* reports stuck, the poll action runs first and the unit is afterwards
\* restarted: a new frame reader comes to run with capture enabled, without
\* operator intervention. Stated on the finite run: once the job that handled
\* the stuck reader is over, a frame reader is running with capture enabled,
\* or a unit is left in the registry of the watchdog for a later job to
\* restart.
C18_Original ==
    StuckHandled => (Capturing \/ thread_items # <<>>)

(* ------------------------------- C21 ----------------------------------- *)
\* the last restart of unit u by the watchdog failed: its mp.Process was
\* never launched
Pending(u) == ~launched(u)

\* the tick of the first failed restart of unit u
FirstFail(u) ==
    LET k == CHOOSE i \in 1..Len(failed) :
                /\ failed[i].unit = u
                /\ \A j \in 1..(i - 1) : failed[j].unit # u
    IN failed[k].tick

\* the job of tick k has run to its end
JobOver(k) == k < ticked \/ (k = ticked /\ wpc = "idle")

\* the watchdog called restart() on unit u in the job of tick k
Attempted(u, k) ==
    \E i \in 1..Len(restarts) :
        /\ restarts[i].unit = u
        /\ restarts[i].caller = "watchdog"
        /\ restarts[i].tick = k

\* C21 as stated: a watchdog-initiated restart that fails is not fatal: the
\* unit stays registered and eligible, and the watchdog attempts the restart
\* again on the next tick, and on every later tick until one succeeds.
C21_Original ==
    \A u \in Units :
        Pending(u) =>
            /\ \E i \in 1..Len(registered_items) : registered_items[i] = u
            /\ _started[u]
            /\ \A k \in (FirstFail(u) + 1)..ticked :
                  JobOver(k) => Attempted(u, k)

(* ------------------------------- C22 ----------------------------------- *)
\* unit u is in the registry of the process watchdog
InRegistry(items, u) == \E i \in 1..Len(items) : items[i] = u

\* C22 as stated: after terminate() or kill() on a process unit has
\* returned, the unit is no longer in the process watchdog's registry,
\* whatever sequence of start(), restart() and watchdog ticks preceded the
\* call.
C22_Original ==
    [][ \A u \in Units :
            released'[u] # released[u] => ~InRegistry(registered_items', u)
      ]_vars

(* ------------------------------- C19 ----------------------------------- *)
\* caller c is taking the given step of restart()
RestartStep(c, from, to) == frame[c].pc = from /\ frame'[c].pc = to

\* C19: restart(timeout) waits in join no longer than timeout, kills nothing
\* but the unit's process and only when it is still alive, then calls
\* start(); when restart returns the process the unit had at the call is not
\* alive, the unit holds a new process handle, its started flag is true, and
\* its name, grace period and construction arguments are what they were.
C19_RestartEffect ==
    /\ [](\A c \in Callers :
            (frame[c].pc = "join" /\ frame[c].timeout # NoTimeout)
                => now <= frame[c].since + frame[c].timeout)
    /\ [][\A c \in Callers :
            LET u == frame[c].unit
                old == frame[c].old
            IN /\ RestartStep(c, "kill", "start") =>
                    \A pid \in DOMAIN proc :
                        proc'[pid] # proc[pid] =>
                            pid = _process[u] /\ proc[pid] = "running"
               /\ RestartStep(c, "start", "idle") =>
                    /\ old # NoProcess => proc'[old] # "running"
                    /\ _process'[u] \notin {NoProcess, old}
                    /\ _process'[u] \notin DOMAIN proc
                    /\ proc'[_process'[u]] = "running"
                    /\ _started'[u]
                    /\ _start_time'[u] = now
                    /\ << _name'[u], _grace_period'[u], _args'[u] >> =
                         << _name[u], _grace_period[u], _args[u] >>]_vars

\* a restart whose join timed out on a process still alive has returned: the
\* process was killed and the unit runs a new one
C19_Witness ==
    \E i \in 1..Len(restarts) :
        LET u == restarts[i].unit
        IN /\ restarts[i].caller = "app"
           /\ restarts[i].alive
           /\ restarts[i].timeout = 5
           /\ frame["app"].pc = "idle"
           /\ now >= Epoch + 5
           /\ is_alive(u) /\ _started[u]
           /\ _process[u] = next_pid - 1
           /\ Len(restarts) = i

(* ------------------------------- C20 ----------------------------------- *)
\* C20 as stated: restart() never blocks indefinitely, whatever the timeout:
\* while it waits on a process that is still alive it has a deadline, after
\* which the process is killed and a new one started.
C20_Original ==
    \A c \in Callers :
        (frame[c].pc = "join" /\ is_alive(frame[c].unit)) =>
            /\ frame[c].timeout # NoTimeout
            /\ now <= frame[c].since + frame[c].timeout

(* ------------------------------- C29 ----------------------------------- *)
\* C29 as stated: once terminate() or kill() on a process unit has returned,
\* the watchdog never starts a new process for that unit and the unit's
\* started flag stays false, under every interleaving of the call with a
\* concurrently running watchdog tick.
C29_Original ==
    \A u \in Units :
        released[u] # NoProcess =>
            /\ ~_started[u]
            /\ _process[u] < released[u]

(* ------------------------------- C30 ----------------------------------- *)
\* C30 as stated: at every moment at most one live OS process exists for a
\* given process unit, after any sequence and interleaving of start(),
\* restart(), terminate(), kill() calls and watchdog ticks; no operation
\* replaces the unit's process handle while the process it refers to is
\* still alive. Processes are created by the start() of their unit only, so
\* both parts say that every live process is the handle of a unit.
C30_Original ==
    \A pid \in DOMAIN proc :
        proc[pid] = "running" => \E u \in Units : _process[u] = pid

\* SpecConstruct: the constructor of DataStream runs again while messages
\* are published to relay subscribers
NextConstruct ==
    \/ /\ Len(parked) + 1 < MaxConsumers
       /\ __init__
    \/ \E i \in 1..MaxConsumers : consumer_switch(i)
    \/ /\ Len(published) < MaxMsgs
       /\ publish_data("p1", PayloadTopic, "x")
    \/ publish_return("p1")
    \/ /\ next_uuid <= MaxSubs
       /\ \E t \in RegistryKeys : subscribe_data(t, Relay)
    \/ DispatchNoThread

SpecConstruct == Init /\ [][NextConstruct]_vars

(* ------------------------------- C23 ----------------------------------- *)
\* C23 as stated: in every reachable state the process has exactly one
\* mailbox, one exact-topic registry, one wildcard registry and exactly one
\* dispatch worker draining the mailbox, including after the constructor of
\* the broker has run more than once. The mailbox and the registries are
\* attributes of the class, one of each whatever is constructed (one
\* variable each here); what varies is the number of data_stream threads.
C23_Original == data_consumers = 1

(* ------------------------------- C24 ----------------------------------- *)
\* subscription id was made under the topic of message m, or under a pattern
\* that matches it, before m was published
ExactBefore(id, m) ==
    /\ subscribed[id].at < m
    /\ subscribed[id].data_topic = Topic(m)

WildcardBefore(id, m) ==
    /\ subscribed[id].at < m
    /\ HasStar(subscribed[id].data_topic)
    /\ fnmatch(Topic(m), subscribed[id].data_topic)

\* among the first j - 1 hand-offs there is the one of message m to id
HandedEarlier(id, m, j) ==
    \E i \in 1..(j - 1) : handed[i].id = id /\ handed[i].mid = m

\* C24: for each message the dispatch worker hands the message to all
\* exact-topic subscribers before it hands it to any wildcard subscriber
\* (no exact hand-off of a message follows a wildcard hand-off of it, and at
\* a wildcard hand-off every exact subscriber has had its hand-off), and it
\* finishes both passes for a message before it dequeues the next one (the
\* hand-offs of a message come before all those of a later message, and at
\* a hand-off of a message every subscriber of each earlier dispatched
\* message has had its hand-off; nothing of a pass is left at the get()).
C24_ExactThenWildcard ==
    /\ \A i, j \in 1..Len(handed) :
          i < j =>
             /\ handed[i].mid <= handed[j].mid
             /\ (handed[i].mid = handed[j].mid /\ HasStar(handed[i].key))
                    => HasStar(handed[j].key)
    /\ \A j \in 1..Len(handed) : \A id \in DOMAIN subscribed :
          /\ (HasStar(handed[j].key) /\ ExactBefore(id, handed[j].mid))
                => HandedEarlier(id, handed[j].mid, j)
          /\ \A m \in 1..(handed[j].mid - 1) :
                (m \notin dropped
                   /\ (ExactBefore(id, m) \/ WildcardBefore(id, m)))
                   => HandedEarlier(id, m, j)
    /\ pc = "get" => (callbacks = <<>> /\ wcopy = <<>>)

\* a message went to an exact subscriber and then to a wildcard subscriber,
\* and the next message was handed to a subscriber after that
C24_Witness ==
    \E i, j, k \in 1..Len(handed) :
        /\ i < j /\ j < k
        /\ handed[i].mid = handed[j].mid
        /\ ~HasStar(handed[i].key)
        /\ HasStar(handed[j].key)
        /\ handed[k].mid > handed[j].mid

(* ------------------------------- C25 ----------------------------------- *)
\* where a subscription id is stored, and what is stored there
EntriesIn(reg, name, id) ==
    { [registry |-> name, data_topic |-> reg[i].data_topic,
       sub |-> reg[i].callbacks[j]] :
         <<i, j>> \in { <<i, j>> \in (1..Len(reg)) \X (1..MaxSubs) :
                          /\ j <= Len(reg[i].callbacks)
                          /\ reg[i].callbacks[j].id = id } }

Entries(id) ==
    EntriesIn(_subscribers, "exact", id)
        \cup EntriesIn(_wildcard_subscribers, "wildcard", id)

\* ids returned by subscribe_data and not removed by unsubscribe_data
LiveIds == DOMAIN subscribed \ DOMAIN unsubscribed

\* id is stored once, under its own key, in the registry of that key
StoredInPlace(id) ==
    /\ Cardinality(Entries(id)) = 1
    /\ \A e \in Entries(id) :
          /\ e.data_topic = subscribed[id].data_topic
          /\ e.registry = IF HasStar(subscribed[id].data_topic)
                          THEN "wildcard" ELSE "exact"

\* C25: after any sequence of subscribe and unsubscribe calls every live
\* subscription id is stored in exactly one place, under its own pattern, in
\* the wildcard registry if the pattern contains "*" and in the exact
\* registry otherwise (so in one registry and under one pattern only), and
\* a subscribe or unsubscribe call changes what is stored for one id at
\* most, the id it is about.
C25_OnePlace ==
    /\ [](\A id \in LiveIds : StoredInPlace(id))
    /\ [][\A id \in DOMAIN subscribed :
             Entries(id)' # Entries(id) =>
                /\ id \in DOMAIN unsubscribed'
                /\ id \notin DOMAIN unsubscribed
                /\ \A other \in DOMAIN subscribed' \ {id} :
                      other \in DOMAIN subscribed
                         /\ Entries(other)' = Entries(other)]_vars

\* two subscriptions were made under one pattern, one of them was removed
\* and the other is in its place, and a failed unsubscribe came after that
C25_Witness ==
    \E id \in LiveIds, gone \in DOMAIN unsubscribed :
        /\ subscribed[id].data_topic = subscribed[gone].data_topic
        /\ HasStar(subscribed[id].data_topic)
        /\ StoredInPlace(id)
        /\ raised = "KeyError"

\* SpecModes: messages to subscribers of the four kinds of target
ModeTargets == Targets \cup {SchedulerRelay}

NextModes ==
    \/ /\ Len(published) < MaxRegistryMsgs
       /\ publish_data("p1", PayloadTopic, "x")
    \/ publish_return("p1")
    \/ /\ next_uuid <= MaxSubs
       /\ \E g \in ModeTargets : subscribe_data(PayloadTopic, g)
    \/ Dispatch

SpecModes == Init /\ [][NextModes]_vars

(* ------------------------------- C26 ----------------------------------- *)
\* the mode the target of a subscriber calls for
ModeOf(sub) ==
    IF sub.callback = "callable" /\ sub.ioloop = None THEN "direct"
    ELSE IF sub.callback = "callable" THEN "scheduler"
    ELSE IF sub.callback = "Queue" THEN "relay"
    ELSE "scheduler_relay"

\* the hand-off a step has made
LastHandOff == handed'[Len(handed')]

\* C26: for each subscription and message exactly one delivery mode is
\* applied, determined by the target: for a callable without scheduler a new
\* thread is started on it (direct); a callable with a scheduler is enqueued
\* on that scheduler's loop and no thread is started (scheduler-callback);
\* a thread-safe queue has the payload pushed onto it, the oldest entry
\* being dropped when it is full (mailbox-relay); for a queue bound to a
\* scheduler the push is enqueued on its scheduler.
C26_ModeByTarget ==
    [][handed' # handed =>
          /\ Len(handed') = Len(handed) + 1
          /\ \A i \in 1..Len(handed) :
                ~(handed[i].id = LastHandOff.id
                    /\ handed[i].mid = LastHandOff.mid)
          /\ LastHandOff.mode = ModeOf(Subscriber(LastHandOff.id))
          /\ LET h == LastHandOff
                 item == [mid |-> h.mid, data |-> Data(h.mid)]
             IN CASE h.mode = "direct" ->
                       /\ threads' = threads \cup
                             {[id |-> h.id, mid |-> h.mid,
                               args |-> CallArgs(Data(h.mid))]}
                       /\ threads' # threads
                       /\ ioloop_callbacks' = ioloop_callbacks
                       /\ queues' = queues
                  [] h.mode = "scheduler" ->
                       /\ ioloop_callbacks' = Append(ioloop_callbacks,
                             [fn |-> "callback", id |-> h.id, mid |-> h.mid,
                              args |-> CallArgs(Data(h.mid))])
                       /\ threads' = threads
                       /\ queues' = queues
                  [] h.mode = "relay" ->
                       /\ queues' = [queues EXCEPT ![h.id] =
                             IF Len(@) >= RelayQueueMaxSize
                             THEN Append(Tail(@), item) ELSE Append(@, item)]
                       /\ threads' = threads
                       /\ ioloop_callbacks' = ioloop_callbacks
                  [] OTHER ->
                       /\ ioloop_callbacks' = Append(ioloop_callbacks,
                             [fn |-> "pop_if_full", id |-> h.id,
                              mid |-> h.mid, args |-> <<Data(h.mid)>>])
                       /\ threads' = threads
                       /\ queues' = queues]_vars

\* a full relay queue got a third message and lost its oldest, the
\* scheduler's loop was given a callback, and a delivery thread was started
C26_Witness ==
    /\ \E id \in DOMAIN queues :
          /\ ModeOf(Subscriber(id)) = "relay"
          /\ Len(queues[id]) = RelayQueueMaxSize
          /\ queues[id][1].mid > 1
    /\ \E i \in 1..Len(handed) : handed[i].mode \in {"scheduler", "direct"}

(* ------------------------------- C27 ----------------------------------- *)
\* a step in which thread.start() raised "can't start new thread"
StartFailed == start_fails' # start_fails /\ pc' = "spawn"

\* a step in which thread.start() was called
StartCalled == handed' # handed \/ start_fails' # start_fails

\* C27 as stated: on a thread-spawn failure caused by thread exhaustion the
\* new ceiling is 95% of the ceiling in force before the failure, rounded
\* down, and the spawn is retried after a short pause, not immediately.
C27_Original ==
    /\ [][StartFailed => _max_threads' = (_max_threads * 95) \div 100]_vars
    /\ [](retry # "immediate")

\* C27: on a thread-spawn failure caused by thread exhaustion the new ceiling
\* is 95%, rounded down, of the number of live threads counted before the
\* failed start; it is below that number and at most 95% of the ceiling in
\* force before. The delivery stays pending and the loop counts again: it
\* pauses while the live threads exceed the new ceiling, as they do right
\* after the failure, and calls start() again without a pause only when
\* threads have ended in the meantime.
C27_CeilingFromLiveThreads ==
    /\ [][StartFailed =>
             /\ _max_threads' = (active_count * 95) \div 100
             /\ _max_threads' < active_count
             /\ _max_threads' * 100 <= _max_threads * 95
             /\ active_count' > _max_threads'
             /\ thread' = thread
             /\ handed' = handed]_vars
    /\ [][(retry = "failed" /\ StartCalled) =>
             active_count <= _max_threads]_vars

\* the ceiling was revised and the pending thread was started with no pause
\* in between
C27_Witness ==
    /\ retry = "immediate"
    /\ _max_threads < _get_max_threads
    /\ start_fails > 0

\* SpecThrottle: SpecSpawn with threads that run whenever they can: the
\* data_stream thread takes its next step, thread.start() succeeds when it
\* is called often enough, and every started delivery thread ends
DataStreamStep ==
    \/ consume_data
    \/ static_subscriptions
    \/ run_callbacks
    \/ throttle_sleep
    \/ wildcard_subscriptions
    \/ wildcard_match

SpecThrottle ==
    /\ SpecSpawn
    /\ WF_vars(DataStreamStep)
    /\ WF_vars(thread_start)
    /\ WF_vars(\E t \in threads : thread_run(t))

(* ------------------------------- C28 ----------------------------------- *)
\* C28 as stated: the throttle loop of a direct delivery always terminates:
\* provided every started delivery thread eventually finishes, the dispatch
\* worker eventually starts the pending delivery thread and proceeds, after
\* any number of ceiling reductions and with long-lived threads that never
\* exit.
C28_Original == (pc = "spawn") ~> (pc = "run")

\* SpecStorm: one unit left to the watchdog for five ticks, whose process
\* ends at any moment and which the operating system can refuse to launch
NextStorm ==
    \/ \E g \in GracePeriods : RestartableProcess("u1", g, TRUE)
    \/ /\ next_pid <= MaxPids
       /\ call_start("u1")
    \/ \E pid \in DOMAIN proc : process_exits(pid)
    \/ /\ now + TimeStep <= Epoch + MaxStormTime
       /\ time_passes
    \/ watchdog_begin
    \/ watchdog
    \/ watchdog_restart
    \/ watchdog_restart_raises
    \/ restart_join("watchdog")
    \/ restart_kill("watchdog")
    \/ /\ next_pid <= MaxPids
       /\ restart_start("watchdog")
    \/ /\ next_pid <= MaxPids
       /\ Len(failed) < MaxLaunchFail
       /\ restart_start_raises("watchdog")

SpecStorm == Init /\ [][NextStorm]_vars

(* ------------------------------- C31 ----------------------------------- *)
\* restart() calls i and j are calls of the watchdog on the same unit
SameUnitRestarts(i, j) ==
    /\ i < j
    /\ restarts[i].caller = "watchdog"
    /\ restarts[j].caller = "watchdog"
    /\ restarts[i].unit = restarts[j].unit

\* C31: every restart resets the start time of the unit (each start() that
\* makes a new process handle writes the present time), so two consecutive
\* restarts of the same unit by the watchdog are separated by at least the
\* grace period of the unit, and within one tick a unit with a positive
\* grace period is restarted at most once, even if it is in the registry
\* several times.
C31_RestartsApart ==
    /\ [][\A u \in Units :
             _process'[u] # _process[u] => _start_time'[u] = now]_vars
    /\ [](\A i, j \in 1..Len(restarts) :
             SameUnitRestarts(i, j) =>
                /\ restarts[j].at - restarts[i].at >= restarts[j].grace_period
                /\ restarts[j].tick # restarts[i].tick)

\* the watchdog restarted a unit twice, one grace period apart, and in the
\* tick of a restart it came to the unit again, through a second entry of
\* the registry, found the new process dead and left it alone
C31_Witness ==
    /\ \E i, j \in 1..Len(restarts) :
          /\ SameUnitRestarts(i, j)
          /\ restarts[j].at - restarts[i].at = restarts[j].grace_period
    /\ \E s \in skipped : \E i \in 1..Len(restarts) :
          /\ restarts[i].caller = "watchdog"
          /\ restarts[i].unit = s.unit
          /\ restarts[i].tick = s.tick
          /\ s.elapsed = 0
          /\ s.grace_period > 0

(* ------------------------------- C32 ----------------------------------- *)
\* the watchdog would restart unit v if it came to it now
Restartable(v) ==
    /\ InRegistry(registered_items, v)
    /\ _started[v]
    /\ ~is_alive(v)
    /\ ~InGrace(v)

\* C32 as stated: a failure while restarting one unit during a watchdog
\* tick does not prevent the other registered units from being checked in
\* the same tick: every other started, not-alive unit whose grace period
\* has elapsed is still restarted in that tick. When the job of a tick is
\* over after a failed restart, each such unit has had its restart() call
\* in that tick.
C32_Original ==
    [][(Len(failed') > Len(failed)
          /\ failed'[Len(failed')].caller = "watchdog"
          /\ JobOver(ticked)')
       => \A v \in Units \ {failed'[Len(failed')].unit} :
             Restartable(v)' => Attempted(v, ticked)']_vars
(* ------------------------------- C33 ----------------------------------- *)
\* SpecReaders: one camera, started once by the application; afterwards the
\* frame readers, the clock and the thread watchdog act, and while a job of
\* the watchdog runs on the thread of the scheduler the application calls
\* start_camera() again, in two steps: its test and its creation of the
\* reader
NextReaders ==
    \/ /\ _frame_reader = NoReader
       /\ cpc["app"].pc = "idle"
       /\ call_start_camera
    \/ /\ tpc # "idle"
       /\ call_start_camera_test
    \/ /\ Len(reader) < MaxRaceReaders
       /\ call_start_camera_create
    \/ stop_camera_join("watchdog")
    \/ \E id \in DOMAIN reader : read_frames(id)
    \/ \E id \in DOMAIN reader : read_frames_loop(id)
    \/ \E id \in DOMAIN reader : read_frames_restart_pipe(id)
    \/ \E id \in DOMAIN reader : read_frames_frame(id)
    \/ \E id \in DOMAIN reader, exited \in BOOLEAN :
          /\ reader[id].empty_frames < MaxEmptyReads
          /\ read_frames_empty(id, exited)
    \/ \E id \in DOMAIN reader : read_frames_raises(id)
    \/ /\ now + TimeStep <= Epoch + MaxRaceTime
       /\ cpc["app"].pc # "create"
       /\ tpc # "idle" => cpc["watchdog"].pc = "join"
       /\ cpc["watchdog"].pc = "join"
             => now < cpc["watchdog"].since + JoinTimeout
       /\ time_passes
    \/ thread_watchdog_begin
    \/ thread_watchdog
    \/ poll_target
    \/ /\ Len(reader) < MaxRaceReaders \/ reader_alive(_frame_reader)
       /\ thread_watchdog_restart

SpecReaders == Init /\ [][NextReaders]_vars

\* the frame readers whose thread is alive
LiveReaders == {id \in DOMAIN reader : reader_alive(id)}

\* C33 as stated: a camera has at most one live frame-reader thread at any
\* time, after any sequence and interleaving of start_camera(),
\* stop_camera(), the poll action and watchdog restarts; start_camera()
\* creates a new reader only when no reader exists or the existing one is
\* not alive.
C33_Original ==
    /\ [](Cardinality(LiveReaders) <= 1)
    /\ [][Len(reader') > Len(reader)
            => (_frame_reader = NoReader \/ ~reader_alive(_frame_reader))]_vars

(* ------------------------------- C34 ----------------------------------- *)
\* SpecStuck: the camera is started once and then left alone, and no frame
\* reader fails on an exception: a reader ends only where read_frames
\* returns
NextStuck ==
    \/ /\ _frame_reader = NoReader
       /\ call_start_camera
    \/ stop_camera_join("watchdog")
    \/ \E id \in DOMAIN reader : read_frames(id)
    \/ \E id \in DOMAIN reader : read_frames_loop(id)
    \/ \E id \in DOMAIN reader : read_frames_restart_pipe(id)
    \/ \E id \in DOMAIN reader : read_frames_frame(id)
    \/ \E id \in DOMAIN reader, exited \in BOOLEAN :
          read_frames_empty(id, exited)
    \/ /\ now + TimeStep <= Epoch + MaxTime
       /\ tpc # "idle" => cpc["watchdog"].pc = "join"
       /\ cpc["watchdog"].pc = "join"
             => now < cpc["watchdog"].since + JoinTimeout
       /\ time_passes
    \/ thread_watchdog_begin
    \/ thread_watchdog
    \/ poll_target
    \/ /\ Len(reader) < MaxReaders \/ reader_alive(_frame_reader)
       /\ thread_watchdog_restart

SpecStuck == Init /\ [][NextStuck]_vars

\* the step ends the thread of a frame reader
ReaderEnds ==
    \E id \in DOMAIN reader :
        reader[id].pos # "ended" /\ reader'[id].pos = "ended"

\* the step is the start_pipe() with which read_frames begins
PipeStarts ==
    \E id \in DOMAIN reader :
        reader[id].pos = "init" /\ reader'[id].pos = "loop"

\* C34 as stated: whenever the camera's frame-reader thread has ended, the
\* stream pipe it opened has been closed: every start of the pipe is followed
\* by a close of the pipe before the pipe is started again, on every exit
\* path of the reader including the stuck path taken after the poll action.
C34_Original ==
    [][/\ ReaderEnds => pipe' = "closed"
       /\ PipeStarts => pipe = "closed"]_vars

(* ------------------------------- C35 ----------------------------------- *)
\* the time since the last received frame
SinceLastFrame == now - _poll_timer

\* the job of the thread watchdog is about to ask the poll predicate of a
\* unit on which stop() was not called
AsksPollMethod ==
    /\ tpc = "loop"
    /\ tcopy # <<>>
    /\ ~reader[Head(tcopy)].stopped

\* C35: the camera's poll predicate returns true exactly when the time since
\* the last received frame exceeds twice the default frame timeout
\* (regardless of connection state, so a camera that never delivers a first
\* frame still times out), or the camera is connected and that time exceeds
\* the configured frame timeout; while the camera is not connected and the
\* time is within twice the default timeout it returns false. The job that
\* asks the predicate runs the poll action exactly in these cases.
C35_PollPredicate ==
    [][(AsksPollMethod /\ tcopy' = Tail(tcopy)) =>
         /\ (tpc' = "poll") <=>
                \/ SinceLastFrame > DefaultFrameTimeout * 2
                \/ connected /\ SinceLastFrame > FrameTimeout
         /\ (~connected /\ SinceLastFrame <= DefaultFrameTimeout * 2)
                => tpc' # "poll"]_vars

\* the job has found stuck a connected camera whose last frame is older than
\* the configured frame timeout and not older than twice the default
C35_Witness ==
    /\ tpc = "poll"
    /\ connected
    /\ SinceLastFrame > FrameTimeout
    /\ SinceLastFrame <= DefaultFrameTimeout * 2

(* ------------------------------- C36 ----------------------------------- *)
\* the step takes reader id from self.stream.read() back to the head of the
\* loop
ReadReturns(id) ==
    reader[id].pos = "read" /\ reader'[id].pos = "loop"

\* the step is a read of reader id that neither counts an empty read nor
\* sets the decode-error flag: the read returned a frame
ReadsFrame(id) ==
    /\ ReadReturns(id)
    /\ reader'[id].empty_frames # reader[id].empty_frames + 1
    /\ decode_error' = decode_error

\* C36: in the camera frame reader the pipe is closed and reopened only
\* after the decode-error flag was set, and that flag is set by the reader
\* only when the frame-producing process has exited (the count of empty reads
\* stays) or the count of consecutive empty reads has reached its limit; any
\* successful read resets the empty-read count to zero, publishes the frame,
\* and marks the camera connected.
C36_DecodeErrorGuardsPipe ==
    [][\A id \in DOMAIN reader :
          /\ (reader[id].pos # "sleep" /\ reader'[id].pos = "sleep")
                => decode_error
          /\ (reader[id].pos = "loop" /\ reader'[id].pos \in {"loop", "read"})
                => pipe' = pipe
          /\ (reader[id].pos = "sleep" /\ reader'[id].pos = "read")
                => (pipe' = "open" /\ ~decode_error'
                      /\ reader'[id].empty_frames = 0)
          /\ (~decode_error /\ decode_error' /\ reader'[id] # reader[id])
                => /\ ReadReturns(id)
                   /\ \/ reader'[id].empty_frames = reader[id].empty_frames
                      \/ reader'[id].empty_frames >= EmptyFramesLimit
          /\ ReadsFrame(id)
                => /\ reader'[id].empty_frames = 0
                   /\ connected'
                   /\ _data_queue' # <<>>
                   /\ _data_queue'[Len(_data_queue')].data_topic
                         = frame_bytes_topic]_vars

\* a reader waits to restart the pipe: it has counted empty reads up to the
\* limit and the flag is set, and a frame read before is in the mailbox
C36_Witness ==
    \E id \in DOMAIN reader :
        /\ reader[id].pos = "sleep"
        /\ reader[id].empty_frames >= EmptyFramesLimit
        /\ decode_error
        /\ _data_queue # <<>>

(* ---------------------------- webserver API --------------------------- *)
\* the HTTP methods BaseAPIHandler routes
Methods == {"GET", "POST", "PUT", "DELETE"}
Groups == {"admin", "write", "read"}

METHOD_ALLOWED_GROUPS ==
    [m \in Methods |-> IF m = "GET" THEN {"admin", "write", "read"}
                                    ELSE {"admin", "write"}]

\* a path and a path pattern are sequences of segments; API_BASE comes before
\* every pattern, and "(x)" is a group of the pattern that takes one segment
API_BASE == <<"api", "v1">>
Group1 == "(x)"

\* tornado.routing.PathMatches(pattern).regex.match(path): the pattern is
\* anchored at both ends
RECURSIVE PathMatches(_, _)
PathMatches(pattern, path) ==
    IF pattern = <<>> THEN path = <<>>
    ELSE /\ path # <<>>
         /\ Head(pattern) = Group1 \/ Head(pattern) = Head(path)
         /\ PathMatches(Tail(pattern), Tail(path))

\* route.get(key, default)
RouteGet(route, key, default) ==
    IF key \in DOMAIN route THEN route[key] ELSE default

\* a cookie or user that is not there, and what the auth store returns for an
\* access token it does not accept
NoCookie == "none"
NoUser == [id |-> "none", enabled |-> FALSE, group |-> "none"]
NoSession == [access_token |-> <<>>, token |-> "none", user_id |-> "none"]

\* self._webserver.auth.validate_access_token(access_token): the refresh
\* token of the session the access token belongs to, or None
auth_validate_access_token(req, access_token) ==
    IF req.session # NoSession /\ req.session.access_token = access_token
      THEN req.session
      ELSE NoSession

\* self._webserver.auth.get_user(user_id)
auth_get_user(req, user_id) ==
    IF \E u \in req.users : u.id = user_id
      THEN CHOOSE u \in req.users : u.id = user_id
      ELSE NoUser

\* ViseronRequestHandler.prepare: self.current_user, from the cookie "user"
prepare(req) ==
    IF ~req.auth
      THEN NoUser
      ELSE IF req.user_cookie # NoCookie
             THEN auth_get_user(req, req.user_cookie)
             ELSE NoUser

\* ViseronRequestHandler.validate_access_token: "True", "False", or "None"
\* where the code returns without a value
validate_access_token(req, access_token, check_refresh_token) ==
    LET refresh_token == auth_validate_access_token(req, access_token)
        user == auth_get_user(req, refresh_token.user_id)
    IN IF refresh_token = NoSession
         THEN "False"
         ELSE IF check_refresh_token /\ req.refresh_token_cookie = NoCookie
                THEN "None"
                ELSE IF /\ check_refresh_token
                        /\ req.refresh_token_cookie # refresh_token.token
                       THEN "False"
                       ELSE IF user = NoUser \/ ~user.enabled
                              THEN "False"
                              ELSE IF prepare(req) # user
                                     THEN "False"
                                     ELSE "True"

\* a header value is the sequence of its words, <<>> a header that is not
\* sent; an access token is the sequence of its parts, the last of them the
\* signature
\* BaseAPIHandler._construct_jwt_from_cookies: the Authorization header, ".",
\* and the signature cookie; no header at all where there is no cookie
_construct_jwt_from_cookies(req) ==
    IF Len(req.authorization) < 2
      THEN <<"junk">>
      ELSE [req.authorization EXCEPT ![2] = @ \o <<req.signature_cookie>>]

\* BaseAPIHandler.validate_auth_header
validate_auth_header(req) ==
    LET browser_request == req.x_requested_with = "XMLHttpRequest"
        missing == IF browser_request
                     THEN req.signature_cookie = NoCookie
                     ELSE req.authorization = <<>>
        auth_header == IF browser_request
                         THEN _construct_jwt_from_cookies(req)
                         ELSE req.authorization
    IN IF missing
         THEN "False"
         ELSE IF Len(auth_header) < 2
                THEN "False"
                ELSE IF auth_header[1] # "Bearer"
                       THEN "False"
                       ELSE validate_access_token(req, auth_header[2],
                                                  browser_request)

\* BaseAPIHandler.response_error(status_code, reason), for the route self.route
response_error(status_code, route) ==
    [status |-> status_code, invoked |-> "none", route |-> route]

handle_endpoint_not_found == response_error(404, "none")
handle_method_not_allowed == response_error(405, "none")

\* route_request from the check of the request arguments on, for the route
\* that was chosen: the arguments, the camera token, the body, and the call
\* of the route's method
route_request_call(route, req) ==
    IF req.rest = "bad_arguments"
      THEN response_error(400, route.method)
      ELSE IF /\ req.auth
              /\ RouteGet(route, "requires_camera_token", FALSE)
              /\ req.camera # "ok"
             THEN response_error(
                    IF req.camera = "no_identifier" THEN 400
                    ELSE IF req.camera = "not_found" THEN 404 ELSE 401,
                    route.method)
             ELSE IF req.rest = "bad_body"
                    THEN response_error(400, route.method)
                    ELSE [status |-> IF req.rest = "raises" THEN 500 ELSE 200,
                          invoked |-> route.method,
                          route |-> route.method]

\* a route_request that lets every group through
route_request_route_any_group(route, req) ==
    IF req.auth /\ RouteGet(route, "requires_auth", TRUE)
      THEN IF validate_auth_header(req) # "True"
             THEN response_error(401, route.method)
             ELSE IF prepare(req) = NoUser
                    THEN response_error(401, route.method)
                    ELSE route_request_call(route, req)
      ELSE route_request_call(route, req)

\* route_request for the route that matches path and method: the checks of
\* authentication and of the group
route_request_route(route, req) ==
    IF req.auth /\ RouteGet(route, "requires_auth", TRUE)
      THEN IF validate_auth_header(req) # "True"
             THEN response_error(401, route.method)
             ELSE IF prepare(req) = NoUser
                    THEN response_error(401, route.method)
                    ELSE LET requires_group ==
                                 RouteGet(route, "requires_group", {})
                             group == prepare(req).group
                         IN IF requires_group # {}
                              THEN IF group \notin requires_group
                                     THEN response_error(403, route.method)
                                     ELSE route_request_call(route, req)
                              ELSE IF group \notin
                                         METHOD_ALLOWED_GROUPS[req.method]
                                     THEN response_error(403, route.method)
                                     ELSE route_request_call(route, req)
      ELSE route_request_call(route, req)

\* a loop over the routes that stops at the first route whose path matches
RECURSIVE route_request_first_path(_, _, _)
route_request_first_path(routes, unsupported_method, req) ==
    IF routes = <<>>
      THEN handle_endpoint_not_found
      ELSE IF PathMatches(API_BASE \o Head(routes).path_pattern, req.path)
             THEN IF req.method \notin Head(routes).supported_methods
                    THEN handle_method_not_allowed
                    ELSE route_request_route(Head(routes), req)
             ELSE route_request_first_path(Tail(routes), unsupported_method,
                                           req)

\* BaseAPIHandler.route_request: the loop over self.routes, from the routes
\* still to try
RECURSIVE route_request_loop(_, _, _)
route_request_loop(routes, unsupported_method, req) ==
    IF routes = <<>>
      THEN IF unsupported_method
             THEN handle_method_not_allowed
             ELSE handle_endpoint_not_found
      ELSE IF PathMatches(API_BASE \o Head(routes).path_pattern, req.path)
             THEN IF req.method \notin Head(routes).supported_methods
                    THEN route_request_loop(Tail(routes), TRUE, req)
                    ELSE route_request_route(Head(routes), req)
             ELSE route_request_loop(Tail(routes), unsupported_method, req)

\* tornado makes a handler for a request: initialize() and prepare()
receive(req) ==
    /\ request = NoRequest
    /\ request' = req
    /\ response' = NoResponse
    /\ UNCHANGED << errorVars, watchdogVars, cameraVars >>
    /\ UNCHANGED << registryVars, _data_queue, raised, ppc, pitem, workerVars,
                    parked, downstreamVars, throttleVars, retry, histVars,
                    passVars >>

\* BaseAPIHandler.get, post, put, delete: route_request()
route_request ==
    /\ request # NoRequest
    /\ response = NoResponse
    /\ response' = route_request_loop(request.routes, FALSE, request)
    /\ UNCHANGED request
    /\ UNCHANGED << errorVars, watchdogVars, cameraVars >>
    /\ UNCHANGED << registryVars, _data_queue, raised, ppc, pitem, workerVars,
                    parked, downstreamVars, throttleVars, retry, histVars,
                    passVars >>

\* the request is finished and its handler is dropped
on_finish ==
    /\ response # NoResponse
    /\ request' = NoRequest
    /\ response' = NoResponse
    /\ UNCHANGED << errorVars, watchdogVars, cameraVars >>
    /\ UNCHANGED << registryVars, _data_queue, raised, ppc, pitem, workerVars,
                    parked, downstreamVars, throttleVars, retry, histVars,
                    passVars >>

\* the access token of a session, the session the auth store keeps for it,
\* and the users of the store
JWT == <<"hp", "s">>
Session == [access_token |-> JWT, token |-> "r1", user_id |-> "u1"]
OtherUser == [id |-> "u2", enabled |-> TRUE, group |-> "admin"]
SessionUsers ==
    {[id |-> "u1", enabled |-> TRUE, group |-> g] : g \in Groups}
        \cup {[id |-> "u1", enabled |-> FALSE, group |-> "admin"]}

\* the routes of a handler with one endpoint, with and without the keys
\* requires_auth and requires_group
CamerasRoute ==
    [path_pattern |-> <<"cameras">>, supported_methods |-> {"GET", "POST"},
     method |-> "cameras"]
AuthRoutes ==
    LET with_auth == {CamerasRoute}
                       \cup {CamerasRoute @@ ("requires_auth" :> b) :
                               b \in BOOLEAN}
    IN with_auth
         \cup {r @@ ("requires_group" :> g) :
                 r \in with_auth, g \in {{}, {"admin"}}}

\* the requests of SpecAuth: one endpoint, every way of presenting or not
\* presenting a session
AuthRequests ==
    [path : {API_BASE \o <<"cameras">>},
     method : {"GET", "POST"},
     routes : {<<r>> : r \in AuthRoutes},
     auth : BOOLEAN,
     x_requested_with : {"XMLHttpRequest", ""},
     authorization : {<<>>, <<"Bearer">>, <<"Bearer", JWT>>,
                      <<"Basic", JWT>>, <<"Bearer", <<"hp">>>>,
                      <<"Bearer", <<"hp", "bad">>>>},
     signature_cookie : {NoCookie, "s"},
     refresh_token_cookie : {NoCookie, "r1", "r2"},
     session : {NoSession, Session},
     users : {{OtherUser}} \cup {{OtherUser, u} : u \in SessionUsers},
     user_cookie : {NoCookie, "u1", "u2"},
     rest : {"ok", "raises"},
     camera : {"ok"}]

\* SpecAuth: requests to one endpoint, answered one after the other
NextAuth ==
    \/ /\ request = NoRequest
       /\ \E req \in AuthRequests : receive(req)
    \/ route_request
    \/ on_finish

SpecAuth == Init /\ [][NextAuth]_vars

\* the routes of SpecRoute: patterns that overlap, each with its methods
RouteSet ==
    {[path_pattern |-> <<"cameras">>, supported_methods |-> {"GET"},
      method |-> "get_cameras", requires_auth |-> FALSE],
     [path_pattern |-> <<"cameras">>, supported_methods |-> {"POST"},
      method |-> "post_cameras", requires_auth |-> FALSE],
     [path_pattern |-> <<"cameras", Group1>>,
      supported_methods |-> {"GET", "DELETE"},
      method |-> "camera", requires_camera_token |-> TRUE],
     [path_pattern |-> <<Group1>>, supported_methods |-> {"GET", "PUT"},
      method |-> "any"]}

\* the lists of at most MaxRoutes routes
RouteLists == UNION {[1..k -> RouteSet] : k \in 0..MaxRoutes}

\* the requests of SpecRoute: every list of routes, with authentication
\* disabled or with the session of an administrator
RouteRequests ==
    [path : {API_BASE \o <<"cameras">>, API_BASE \o <<"cameras", "c1">>,
             API_BASE \o <<"a", "b", "c">>},
     method : Methods,
     routes : RouteLists,
     auth : BOOLEAN,
     x_requested_with : {""},
     authorization : {<<"Bearer", JWT>>},
     signature_cookie : {NoCookie},
     refresh_token_cookie : {NoCookie},
     session : {Session},
     users : {{OtherUser, [id |-> "u1", enabled |-> TRUE,
                           group |-> "admin"]}},
     user_cookie : {"u1"},
     rest : {"ok", "bad_arguments", "bad_body"},
     camera : {"ok", "no_identifier", "not_found", "bad_token"}]

\* SpecRoute: requests to handlers with several routes
NextRoute ==
    \/ /\ request = NoRequest
       /\ \E req \in RouteRequests : receive(req)
    \/ route_request
    \/ on_finish

SpecRoute == Init /\ [][NextRoute]_vars

(* ------------------------------- C37 ----------------------------------- *)
\* the routes of the request whose pattern matches its path, and those of
\* them that support its method, by their place in self.routes
PathMatching(req) ==
    {i \in 1..Len(req.routes) :
        PathMatches(API_BASE \o req.routes[i].path_pattern, req.path)}
Matching(req) ==
    {i \in PathMatching(req) :
        req.method \in req.routes[i].supported_methods}

\* the matched route: the first that matches path and method
MatchedRoute(req) ==
    req.routes[CHOOSE i \in Matching(req) : \A j \in Matching(req) : i <= j]

\* a request has been answered
Answered == request # NoRequest /\ response # NoResponse

\* the user the cookie "user" names in the store
CurrentUser(req) ==
    IF \E u \in req.users : u.id = req.user_cookie
      THEN CHOOSE u \in req.users : u.id = req.user_cookie
      ELSE NoUser

\* the bearer token the request presents: that of the Authorization header,
\* completed by the signature cookie when the request comes from a browser
Presents(req, token) ==
    IF req.x_requested_with = "XMLHttpRequest"
      THEN /\ req.signature_cookie # NoCookie
           /\ Len(req.authorization) = 2
           /\ req.authorization[1] = "Bearer"
           /\ token = req.authorization[2] \o <<req.signature_cookie>>
      ELSE req.authorization = <<"Bearer", token>>

\* the auth header validates: the request presents the access token of a
\* session of the store, from a browser also the refresh token of that
\* session, and the user of the session exists, is enabled and is the
\* current user
HeaderValidates(req) ==
    /\ req.session # NoSession
    /\ Presents(req, req.session.access_token)
    /\ req.x_requested_with = "XMLHttpRequest"
          => req.refresh_token_cookie = req.session.token
    /\ \E u \in req.users :
          /\ u.id = req.session.user_id
          /\ u.enabled
          /\ CurrentUser(req) = u

\* the group of the current user is one the route lets in
GroupAllowed(req, route) ==
    LET requires_group == RouteGet(route, "requires_group", {})
    IN IF requires_group # {}
         THEN CurrentUser(req).group \in requires_group
         ELSE CurrentUser(req).group \in METHOD_ALLOWED_GROUPS[req.method]

\* the request passes the checks of route_request for the route
Authorized(req, route) ==
    /\ HeaderValidates(req)
    /\ CurrentUser(req) # NoUser
    /\ GroupAllowed(req, route)

\* C37: when authentication is enabled and the matched API route requires
\* auth (the default), the route's method is invoked only if the auth header
\* validates, a current user is set, and the user's group is in the route's
\* required groups or, when the route lists none, in the groups allowed for
\* the HTTP method; otherwise the response is 401 or 403 and the route's
\* method is never invoked.
C37_InvokedOnlyIfAuthorized ==
    (/\ Answered
     /\ request.auth
     /\ Matching(request) # {}
     /\ RouteGet(MatchedRoute(request), "requires_auth", TRUE))
    => /\ response.invoked # "none"
             => Authorized(request, MatchedRoute(request))
       /\ ~Authorized(request, MatchedRoute(request))
             => /\ response.status \in {401, 403}
                /\ response.invoked = "none"

\* a browser request with the signature cookie and the refresh token of the
\* session of a user of group read has had the GET route without
\* requires_group invoked
C37_Witness ==
    /\ Answered
    /\ request.auth
    /\ request.x_requested_with = "XMLHttpRequest"
    /\ request.method = "GET"
    /\ "requires_group" \notin DOMAIN MatchedRoute(request)
    /\ "requires_auth" \notin DOMAIN MatchedRoute(request)
    /\ CurrentUser(request).group = "read"
    /\ response.invoked = "cameras"

(* ------------------------------- C38 ----------------------------------- *)
\* C38: an API request whose path matches no route is answered with 404; a
\* request whose path matches at least one route but whose method is
\* supported by none of the path-matching routes is answered with 405; a
\* route that matches both path and method is the one used even when an
\* earlier path-matching route did not support the method; every request gets
\* exactly one of these outcomes.
C38_RouteOr404Or405 ==
    Answered =>
        IF PathMatching(request) = {}
          THEN response = handle_endpoint_not_found
          ELSE IF Matching(request) = {}
                 THEN response = handle_method_not_allowed
                 ELSE response.route = MatchedRoute(request).method

\* a request has been routed to the third route of its handler, the first
\* two having matched the path and not the method, and the method of the
\* route was invoked
C38_Witness ==
    /\ Answered
    /\ PathMatching(request) = {1, 2, 3}
    /\ Matching(request) = {3}
    /\ response.invoked = request.routes[3].method
    /\ response.status = 200

====
